---- MODULE Spec2Model ----
(***************************************************************************)
(* Model of the order exporter of vzeman/biznisweb (src/export_orders.py)  *)
(* and of the two ad-spend clients (src/facebook_ads.py,                   *)
(* src/google_ads.py).                                                     *)
(*                                                                         *)
(* Dates are day numbers (all datetimes the code compares are midnights,   *)
(* except date_to, whose time of day never changes the outcome of a        *)
(* comparison with a midnight).  Money is counted in cents.                *)
(***************************************************************************)
EXTENDS Integers, Sequences, FiniteSets, TLC

(***************************************************************************)
(* Bounds of the model                                                     *)
(***************************************************************************)
MaxDate == 3           \* requested ranges lie in 1..MaxDate
MaxApiOrders == 2      \* number of orders the shop API holds
MaxRuns == 2           \* runs of main() in one behaviour
MaxItems == 2          \* items of the order handed to flatten_order
MaxCacOrders == 2      \* orders of the data frame handed to calculate_clv_and_return_time
MaxSpend == 1          \* daily ad spend, in units of SpendUnit cents

(***************************************************************************)
(* Program constants                                                       *)
(***************************************************************************)
DefaultCacheDaysThreshold == 7
BulkMaxOrders == 900
PageLimit == 30
MaxBatches == 5
\* one attempt more than the code allows
MaxRetriesFour == 4

MaxRetries == 3
RetryDelay == 2
FbCacheDaysThreshold == 3
GoogleCacheDaysThreshold == 3
FbCacheExpiryDays == 30
GoogleCacheExpiryDays == 30

\* datetime.now(): the last date that can be requested is exactly
\* cache_days_threshold days old, the dates before it are older
Today == MaxDate + DefaultCacheDaysThreshold

NoCursor == -1
ParseError == -1
Dates == 1..MaxDate

Min(a, b) == IF a <= b THEN a ELSE b

RECURSIVE SeqToSet(_)
SeqToSet(s) == IF s = <<>> THEN {} ELSE {Head(s)} \cup SeqToSet(Tail(s))

RECURSIVE Range(_, _)
\* the dates current_date, current_date + 1 day, ... while <= date_to
Range(from, to) == IF from > to THEN <<>> ELSE <<from>> \o Range(from + 1, to)

(***************************************************************************)
(* Orders.  pur_date is a string in the code; the model keeps the shape    *)
(* of the string (kind) and the day its date part denotes.                 *)
(*   "datetime"  'YYYY-MM-DD HH:MM:SS'      "date"   'YYYY-MM-DD'          *)
(*   "empty"     '' or key absent           "bad"    a date in a format    *)
(*                                                   strptime rejects      *)
(* status is the name of the status object ("" when the object or its      *)
(* name is missing).  Names are written without diacritics.                *)
(***************************************************************************)
ExcludedStatuses ==
    { "Storno",
      "Platba online - platnost vyprsala",
      "Platba online - platba zamietnuta",
      "Caka na uhradu",
      "GoPay - platebni metoda potvrzena" }

OrderPool ==
    << [id |-> 1, pur_date |-> [kind |-> "datetime", day |-> 1], status |-> "Odoslana"],
       [id |-> 2, pur_date |-> [kind |-> "datetime", day |-> 1], status |-> "Vybavena"],
       [id |-> 3, pur_date |-> [kind |-> "date",     day |-> 1], status |-> "Storno"],
       [id |-> 4, pur_date |-> [kind |-> "datetime", day |-> 2], status |-> "Odoslana"],
       [id |-> 5, pur_date |-> [kind |-> "datetime", day |-> 2], status |-> "Caka na uhradu"],
       [id |-> 6, pur_date |-> [kind |-> "datetime", day |-> 3], status |-> ""],
       [id |-> 7, pur_date |-> [kind |-> "empty",    day |-> 0], status |-> "Odoslana"],
       [id |-> 8, pur_date |-> [kind |-> "bad",      day |-> 1], status |-> "Odoslana"] >>

PoolIds == 1..Len(OrderPool)

\* if pur_date_str:
HasPurDate(o) == o.pur_date.kind # "empty"

\* a parser that also accepts the other date format
ParsePurDateLenient(o) ==
    IF o.pur_date.kind \in {"datetime", "date", "bad"} THEN o.pur_date.day ELSE ParseError

\* datetime.strptime(pur_date_str.split()[0], '%Y-%m-%d'): the day of the
\* date part, or ParseError for ValueError / IndexError
ParsePurDate(o) ==
    IF o.pur_date.kind \in {"datetime", "date"} THEN o.pur_date.day ELSE ParseError

\* status = order.get('status', {}) or {}; status.get('name', '')
StatusName(o) == o.status

(***************************************************************************)
(* The shop API: getOrderList ordered by pur_date, paginated by a cursor.  *)
(* A cursor is the number of orders already served.                        *)
(***************************************************************************)
SortKey(i) == OrderPool[i].pur_date.day * 100 + i

RECURSIVE SortByPurDate(_)
SortByPurDate(S) ==
    IF S = {} THEN <<>>
    ELSE LET m == CHOOSE x \in S : \A y \in S : SortKey(x) <= SortKey(y)
         IN  <<OrderPool[m]>> \o SortByPurDate(S \ {m})

RECURSIVE Reverse(_)
Reverse(s) == IF s = <<>> THEN <<>> ELSE Reverse(Tail(s)) \o <<Head(s)>>

ApiOrderList(ids, sort) ==
    IF sort = "ASC" THEN SortByPurDate(ids) ELSE Reverse(SortByPurDate(ids))

ApiStart(c) == IF c = NoCursor THEN 0 ELSE c

\* the page of n orders that follows cursor c
ApiPage(ids, sort, c, n) ==
    SubSeq(ApiOrderList(ids, sort), ApiStart(c) + 1, ApiStart(c) + n)

ApiRemaining(ids, c) == Cardinality(ids) - ApiStart(c)

(***************************************************************************)
(* The file system under data/: directories and JSON files.                *)
(***************************************************************************)
OrderCacheDir == <<"data", "cache">>
FbCacheDir == <<"data", "cache", "facebook_ads">>
GoogleCacheDir == <<"data", "cache", "google_ads">>

IsPrefix(p, q) == Len(p) <= Len(q) /\ SubSeq(q, 1, Len(p)) = p

Prefixes(p) == { SubSeq(p, 1, k) : k \in 1..Len(p) }

\* Path.mkdir(parents=True, exist_ok=True)
Mkdir(ds, p) == ds \cup Prefixes(p)

\* shutil.rmtree(p)
RmtreeDirs(ds, p) == { d \in ds : ~IsPrefix(p, d) }
RmtreeFiles(fs, p) == [ f \in { g \in DOMAIN fs : ~IsPrefix(p, g.dir) } |-> fs[f] ]

\* BizniWebExporter.get_cache_filename: cache_dir / f"orders_{date_str}.json"
get_cache_filename(date) ==
    [dir |-> OrderCacheDir, prefix |-> "orders", from |-> date, to |-> date]

\* FacebookAdsClient.get_cache_filename
fb_get_cache_filename(from, to) ==
    [dir |-> FbCacheDir, prefix |-> "fb_ads", from |-> from, to |-> to]

\* a client that writes into the cache directory and under the file names
\* of the other ad client
google_get_cache_filename_shared(from, to) ==
    [dir |-> FbCacheDir, prefix |-> "fb_ads", from |-> from, to |-> to]

\* GoogleAdsClient.get_cache_filename
google_get_cache_filename(from, to) ==
    [dir |-> GoogleCacheDir, prefix |-> "google_ads", from |-> from, to |-> to]

EmptyDict == [d \in {} |-> <<>>]

\* datetime.now() as it is written into cached_at: the day, and the number
\* of the run, which tells two writes of the same day apart
Now(run, day) == [run |-> run, day |-> day]

\* what the history keeps of open(path, 'r'): who reads, and who wrote
FileRead(client, fs, path) ==
    [client |-> client, path |-> path, writer |-> fs[path].writer]

\* open(path, 'w') + json.dump: fails when the directory does not exist
WriteFile(fs, ds, path, content) ==
    IF path.dir \in ds
    THEN [ f \in DOMAIN fs \cup {path} |-> IF f = path THEN content ELSE fs[f] ]
    ELSE fs


(***************************************************************************)
(* State                                                                   *)
(***************************************************************************)
VARIABLES
    files,                 \* path -> content of the JSON files under data/
    dirs,                  \* the directories that exist
    api_ids,               \* the orders (ids of OrderPool) the shop API holds
    today,                 \* datetime.now() at midnight, as a day number
    runs,                  \* runs of main() started so far
    pc,                    \* position in the code
    fn,                    \* the paginating function that is running
    date_from, date_to,    \* the requested range
    cache_days_threshold,  \* [inf, days]: float('inf') or a number of days
    all_orders,            \* fetch_orders: all_orders
    dates_to_fetch,        \* fetch_orders: dates_to_fetch
    sort_order,            \* 'DESC' or 'ASC'
    orders_by_date,        \* fetch_orders: dict date -> list of orders
    batch_num,             \* fetch_orders: batch_num
    next_cursor,           \* fetch_orders: next_cursor
    result,                \* the value returned by the function
    bulk_orders,           \* all_orders of the paginating function
    has_next_page, cursor, retry_count, success, consecutive_errors,
    max_orders,            \* parameter of fetch_all_orders_bulk
    requests,              \* history: the page queries sent, with outcome
    slept,                 \* history: the delays of time.sleep after failures
    cache_read,            \* history: dates whose cache file this run opened
    files_before,          \* history: files when fetch_orders was entered
    request_failed,        \* history: a page query of this run raised
    file_reads,            \* history: the cache files this run opened, by client
    fb_is_configured,      \* FacebookAdsClient.is_configured
    google_is_configured,  \* GoogleAdsClient.is_configured (and client set)
    fb_daily_spend,        \* export_to_csv: fb_daily_spend
    google_ads_daily_spend,\* export_to_csv: google_ads_daily_spend
    ad_api_calls,          \* history: the ad API requests sent, by client
    web_session,           \* InvoiceGenerator.web_session is not None
    dry_run,               \* --dry-run of generate_invoices.py
    orders_for_invoice,    \* process_orders: the orders still to be processed
    inv_requests,          \* history: the page queries of InvoiceGenerator
    web_requests,          \* history: the requests sent over the web session
    create_results,        \* history: what each call of create_invoice returned
    input,                 \* the argument of the function under study
    output                 \* what that function returned or raised

fetchVars == <<all_orders, dates_to_fetch, sort_order, orders_by_date,
               batch_num, next_cursor>>
pageVars == <<bulk_orders, has_next_page, cursor, retry_count, success,
              consecutive_errors, max_orders>>
logVars == <<requests, slept>>
histVars == <<cache_read, files_before, request_failed, file_reads>>
runVars == <<api_ids, today, runs, fn, date_from, date_to, cache_days_threshold>>
adVars == <<fb_is_configured, google_is_configured, fb_daily_spend,
            google_ads_daily_spend, ad_api_calls>>
calcVars == <<input, output>>
invVars == <<web_session, dry_run, orders_for_invoice, inv_requests, web_requests,
             create_results>>
otherVars == <<adVars, calcVars, invVars>>
vars == <<files, dirs, pc, result, runVars, fetchVars, pageVars, logVars, histVars,
          otherVars>>

(***************************************************************************)
(* BizniWebExporter: the per-day order cache                               *)
(***************************************************************************)
Finite(days) == [inf |-> FALSE, days |-> days]
Infinity == [inf |-> TRUE, days |-> 0]

\* a comparison that takes no account of float('inf')
LeqThresholdFinite(x, t) == x <= t.days

\* x <= threshold, where the threshold may be float('inf')
LeqThreshold(x, t) == t.inf \/ x <= t.days

\* x > threshold
GtThreshold(x, t) == ~t.inf /\ x > t.days

DaysAgo(now, date) == now - date

\* the JSON document of an order cache file
OrderCacheContent(orders, stamp) ==
    [valid |-> TRUE, writer |-> "orders", orders |-> orders,
     daily_spend |-> EmptyDict, cached_at |-> stamp]

\* should_use_cache with days_ago < threshold in place of <=
should_use_cache_strict(fs, now, t, date) ==
    IF t.inf \/ DaysAgo(now, date) < t.days THEN FALSE
    ELSE get_cache_filename(date) \in DOMAIN fs

\* BizniWebExporter.should_use_cache
should_use_cache(fs, now, t, date) ==
    IF LeqThreshold(DaysAgo(now, date), t) THEN FALSE
    ELSE get_cache_filename(date) \in DOMAIN fs

\* what is left of a document whose open() or json.load raises: a file
\* without read permission, a truncated write, bytes that are not JSON
CorruptFile ==
    [valid |-> FALSE, writer |-> "orders", orders |-> <<>>,
     daily_spend |-> EmptyDict, cached_at |-> [run |-> 0, day |-> 0]]

\* load_from_cache without its try/except: the exception of open() or
\* json.load leaves the function
load_from_cache_uncaught(fs, date) ==
    LET cache_file == get_cache_filename(date) IN
    IF cache_file \notin DOMAIN fs THEN [none |-> TRUE, orders |-> <<>>, raised |-> FALSE]
    ELSE IF ~fs[cache_file].valid THEN [none |-> TRUE, orders |-> <<>>, raised |-> TRUE]
    ELSE [none |-> FALSE, orders |-> fs[cache_file].orders, raised |-> FALSE]

\* BizniWebExporter.load_from_cache: [none |-> TRUE] stands for None, raised
\* tells whether an exception leaves the function
load_from_cache(fs, date) ==
    LET cache_file == get_cache_filename(date) IN
    IF cache_file \notin DOMAIN fs THEN [none |-> TRUE, orders |-> <<>>, raised |-> FALSE]
    ELSE IF ~fs[cache_file].valid THEN [none |-> TRUE, orders |-> <<>>, raised |-> FALSE]
    ELSE [none |-> FALSE, orders |-> fs[cache_file].orders, raised |-> FALSE]

\* BizniWebExporter.save_to_cache_simple
save_to_cache_simple(fs, ds, stamp, date, orders) ==
    WriteFile(fs, ds, get_cache_filename(date), OrderCacheContent(orders, stamp))

\* a filter that keeps every order
_filter_by_status_keep_all(orders) == orders

\* BizniWebExporter._filter_by_status
_filter_by_status(orders) ==
    LET Keep(o) == StatusName(o) \notin ExcludedStatuses
    IN  SelectSeq(orders, Keep)

\* fetch_orders, lines 622-627: the date is served from the cache
ServedFromCache(fs, now, t, date) ==
    /\ should_use_cache(fs, now, t, date)
    /\ LET cached_orders == load_from_cache(fs, date)
       IN  ~cached_orders.none /\ cached_orders.orders # <<>>

RECURSIVE ScanCachedOrders(_, _, _, _)
\* fetch_orders, lines 616-631: the orders the loop takes from the cache
ScanCachedOrders(fs, now, t, ds) ==
    IF ds = <<>> THEN <<>>
    ELSE (IF ServedFromCache(fs, now, t, Head(ds))
          THEN load_from_cache(fs, Head(ds)).orders ELSE <<>>)
         \o ScanCachedOrders(fs, now, t, Tail(ds))

\* fetch_orders, lines 616-631: a call of load_from_cache in the loop raises
ScanRaises(fs, now, t, ds) ==
    \E k \in 1..Len(ds) :
        should_use_cache(fs, now, t, ds[k]) /\ load_from_cache(fs, ds[k]).raised

\* fetch_orders, lines 616-631: the dates the loop leaves for the API
ScanDatesToFetch(fs, now, t, ds) ==
    LET Needs(d) == ~ServedFromCache(fs, now, t, d)
    IN  SelectSeq(ds, Needs)

\* fetch_orders, lines 664-678: the orders of bulk that fall on date d
OrdersOfDate(bulk, d) ==
    LET On(o) == HasPurDate(o) /\ ParsePurDate(o) # ParseError /\ ParsePurDate(o) = d
    IN  SelectSeq(bulk, On)

\* fetch_orders, lines 664-678: orders_by_date after organising one batch
Organise(obd, bulk, dtf) ==
    LET found == { d \in SeqToSet(dtf) : OrdersOfDate(bulk, d) # <<>> }
    IN  [ d \in DOMAIN obd \cup found |->
            (IF d \in DOMAIN obd THEN obd[d] ELSE <<>>) \o OrdersOfDate(bulk, d) ]

\* fetch_orders, lines 695-709: the orders of one date that are kept
ValidatedOrders(obd, d) ==
    LET day_orders == IF d \in DOMAIN obd THEN obd[d] ELSE <<>>
        Valid(o) == HasPurDate(o) /\ ParsePurDate(o) # ParseError /\ ParsePurDate(o) = d
    IN  SelectSeq(_filter_by_status(day_orders), Valid)

RECURSIVE StoreOrders(_, _)
\* fetch_orders, lines 689-712: what the loop appends to all_orders
StoreOrders(obd, dtf) ==
    IF dtf = <<>> THEN <<>>
    ELSE ValidatedOrders(obd, Head(dtf)) \o StoreOrders(obd, Tail(dtf))

RECURSIVE StoreFiles(_, _, _, _, _, _, _)
\* fetch_orders, lines 714-716: the cache files after the loop
StoreFiles(fs, ds, stamp, now, t, obd, dtf) ==
    IF dtf = <<>> THEN fs
    ELSE LET d == Head(dtf)
             fs1 == IF GtThreshold(DaysAgo(now, d), t)
                    THEN save_to_cache_simple(fs, ds, stamp, d, ValidatedOrders(obd, d))
                    ELSE fs
         IN  StoreFiles(fs1, ds, stamp, now, t, obd, Tail(dtf))

\* fetch_orders, lines 718-738: the final validation
FinalValidated(orders, from, to) ==
    LET InRange(o) == /\ HasPurDate(o)
                      /\ ParsePurDate(o) # ParseError
                      /\ from <= ParsePurDate(o) /\ ParsePurDate(o) <= to
    IN  SelectSeq(orders, InRange)


(***************************************************************************)
(* main() of export_orders.py up to the call of fetch_orders               *)
(***************************************************************************)
\* BizniWebExporter.__init__ with FacebookAdsClient.__init__ and
\* GoogleAdsClient.__init__: the three cache directories are created
InitDirs(ds) == Mkdir(Mkdir(Mkdir(ds, FbCacheDir), GoogleCacheDir), OrderCacheDir)

\* main, lines 1825-1831: --clear-cache
ClearCacheDirs(ds) == Mkdir(RmtreeDirs(ds, OrderCacheDir), OrderCacheDir)
ClearCacheFiles(fs) == RmtreeFiles(fs, OrderCacheDir)

StartRun(from, to, clear_cache, no_cache) ==
    /\ pc \in {"idle", "done", "exported"}
    /\ runs < MaxRuns
    /\ runs' = runs + 1
    /\ date_from' = from
    /\ date_to' = to
    /\ dirs' = IF clear_cache THEN ClearCacheDirs(InitDirs(dirs)) ELSE InitDirs(dirs)
    /\ files' = IF clear_cache THEN ClearCacheFiles(files) ELSE files
    /\ cache_days_threshold' =
           IF no_cache THEN Infinity ELSE Finite(DefaultCacheDaysThreshold)
    /\ all_orders' = <<>>
    /\ dates_to_fetch' = <<>>
    /\ sort_order' = "DESC"
    /\ orders_by_date' = EmptyDict
    /\ batch_num' = 1
    /\ next_cursor' = NoCursor
    /\ result' = <<>>
    /\ bulk_orders' = <<>>
    /\ has_next_page' = TRUE
    /\ cursor' = NoCursor
    /\ retry_count' = 0
    /\ success' = FALSE
    /\ consecutive_errors' = 0
    /\ max_orders' = BulkMaxOrders
    /\ cache_read' = {}
    /\ files_before' = files'
    /\ request_failed' = FALSE
    /\ file_reads' = {}
    /\ pc' = "scan"
    /\ UNCHANGED <<otherVars, api_ids, today, fn, logVars>>

(***************************************************************************)
(* BizniWebExporter.fetch_orders                                           *)
(***************************************************************************)
\* lines 608-643: the cache scan and the choice of the sort order
ScanCache ==
    /\ pc = "scan"
    /\ LET ds == Range(date_from, date_to)
           dtf == ScanDatesToFetch(files, today, cache_days_threshold, ds)
           recent_dates ==
               LET Recent(d) == LeqThreshold(DaysAgo(today, d), cache_days_threshold)
               IN  SelectSeq(dtf, Recent)
       IN  /\ all_orders' = ScanCachedOrders(files, today, cache_days_threshold, ds)
           /\ dates_to_fetch' = dtf
           /\ cache_read' = { d \in SeqToSet(ds) :
                                should_use_cache(files, today, cache_days_threshold, d) }
           /\ file_reads' = file_reads \cup
                  { FileRead("orders", files, get_cache_filename(d)) :
                      d \in { e \in SeqToSet(ds) :
                                 should_use_cache(files, today, cache_days_threshold, e) } }
           /\ sort_order' = IF recent_dates # <<>> THEN "DESC" ELSE "ASC"
           /\ pc' = IF ScanRaises(files, today, cache_days_threshold, ds) THEN "aborted"
                    ELSE IF dtf # <<>> THEN "batch" ELSE "final"
    /\ UNCHANGED <<otherVars, files, dirs, result, runVars, orders_by_date, batch_num,
                   next_cursor, pageVars, logVars, files_before, request_failed>>

\* lines 651-657: the call of fetch_all_orders_bulk, and its lines 547-551
BeginBatch ==
    /\ pc = "batch"
    /\ bulk_orders' = <<>>
    /\ has_next_page' = TRUE
    /\ cursor' = next_cursor
    /\ max_orders' = BulkMaxOrders
    /\ retry_count' = 0
    /\ success' = FALSE
    /\ pc' = "page_loop"
    /\ UNCHANGED <<otherVars, files, dirs, result, runVars, fetchVars, consecutive_errors,
                   logVars, histVars>>

(***************************************************************************)
(* The pagination loop of fetch_all_orders_bulk (fn = "bulk"),             *)
(* fetch_orders_for_period (fn = "period") and fetch_orders_for_month      *)
(* (fn = "month")                                                          *)
(***************************************************************************)
\* the test of the outer while loop
LoopCondition ==
    IF fn = "bulk" THEN has_next_page /\ Len(bulk_orders) < max_orders
    ELSE has_next_page

PageLoop ==
    /\ pc = "page_loop"
    /\ IF LoopCondition
       THEN /\ retry_count' = 0
            /\ success' = FALSE
            /\ pc' = "page_try"
       ELSE /\ UNCHANGED <<retry_count, success>>
            /\ pc' = "page_return"
    /\ UNCHANGED <<otherVars, files, dirs, result, runVars, fetchVars, bulk_orders,
                   has_next_page, cursor, consecutive_errors, max_orders,
                   logVars, histVars>>

\* one attempt whose client.execute returns the answer (orders, hasNextPage,
\* nextCursor): the try block of the retry loop
TryAnswer(orders, hasNextPage, nextCursor) ==
    /\ pc = "page_try"
    /\ retry_count < MaxRetries /\ ~success
    /\ bulk_orders' = bulk_orders \o orders
    /\ has_next_page' =
           IF fn = "bulk" /\ Len(bulk_orders') >= max_orders THEN FALSE
           ELSE hasNextPage
    /\ cursor' = nextCursor
    /\ success' = TRUE
    /\ consecutive_errors' = IF fn = "bulk" THEN consecutive_errors ELSE 0
    /\ pc' = "page_loop"
    /\ UNCHANGED <<otherVars, files, dirs, result, runVars, fetchVars, retry_count,
                   max_orders, histVars>>

\* one attempt whose client.execute returns a page of n orders
TrySucceeds(n, last_cursor_null) ==
    /\ n <= ApiRemaining(api_ids, cursor)
    /\ n >= 1 \/ ApiRemaining(api_ids, cursor) = 0
    /\ LET hasNextPage == ApiStart(cursor) + n < Cardinality(api_ids)
       IN  TryAnswer(ApiPage(api_ids, sort_order, cursor, n), hasNextPage,
                     IF ~hasNextPage /\ last_cursor_null THEN NoCursor
                     ELSE ApiStart(cursor) + n)

\* one attempt whose client.execute raises
TryFails ==
    /\ pc = "page_try"
    /\ retry_count < MaxRetries /\ ~success
    /\ retry_count' = retry_count + 1
    /\ consecutive_errors' =
           IF fn = "bulk" THEN consecutive_errors ELSE consecutive_errors + 1
    /\ request_failed' = TRUE
    /\ IF retry_count' < MaxRetries
       THEN /\ pc' = "page_try"
            /\ UNCHANGED has_next_page
       ELSE /\ has_next_page' = FALSE
            /\ pc' = "page_loop"
    /\ UNCHANGED <<otherVars, files, dirs, result, runVars, fetchVars, bulk_orders, cursor,
                   success, max_orders, cache_read, files_before, file_reads>>

\* lines 653-686: the batch returned by fetch_all_orders_bulk is organised
EndBatch ==
    /\ pc = "page_return"
    /\ fn = "bulk"
    /\ next_cursor' = cursor
    /\ IF bulk_orders = <<>>
       THEN /\ pc' = "store"
            /\ UNCHANGED <<orders_by_date, batch_num>>
       ELSE LET obd == Organise(orders_by_date, bulk_orders, dates_to_fetch)
                new_dates_found == Cardinality(DOMAIN obd \ DOMAIN orders_by_date)
            IN  /\ orders_by_date' = obd
                /\ IF \/ Cardinality(DOMAIN obd) >= Len(dates_to_fetch)
                      \/ new_dates_found = 0
                   THEN /\ pc' = "store"
                        /\ UNCHANGED batch_num
                   ELSE /\ batch_num' = batch_num + 1
                        /\ pc' = IF batch_num' <= MaxBatches THEN "batch" ELSE "store"
    /\ UNCHANGED <<otherVars, files, dirs, result, runVars, all_orders, dates_to_fetch,
                   sort_order, pageVars, logVars, histVars>>

\* lines 688-716: filter, validate, append and cache the fetched dates
StoreDates ==
    /\ pc = "store"
    /\ all_orders' = all_orders \o StoreOrders(orders_by_date, dates_to_fetch)
    /\ files' = StoreFiles(files, dirs, Now(runs, today), today, cache_days_threshold,
                           orders_by_date, dates_to_fetch)
    /\ pc' = "final"
    /\ UNCHANGED <<otherVars, dirs, result, runVars, dates_to_fetch, sort_order,
                   orders_by_date, batch_num, next_cursor, pageVars, logVars,
                   histVars>>

\* lines 718-738: the final validation and the return
FinalValidate ==
    /\ pc = "final"
    /\ result' = FinalValidated(all_orders, date_from, date_to)
    /\ pc' = "done"
    /\ UNCHANGED <<otherVars, files, dirs, runVars, fetchVars, pageVars, logVars, histVars>>

\* the variables a specification does not use
NoValue == [none |-> TRUE]

InitAds ==
    /\ fb_is_configured = FALSE
    /\ google_is_configured = FALSE
    /\ fb_daily_spend = EmptyDict
    /\ google_ads_daily_spend = EmptyDict
    /\ ad_api_calls = <<>>

InitCalc ==
    /\ input = NoValue
    /\ output = NoValue

\* generate_invoices.py is not running
InitInvIdle ==
    /\ web_session = FALSE
    /\ dry_run = FALSE
    /\ orders_for_invoice = <<>>
    /\ inv_requests = <<>>
    /\ web_requests = <<>>
    /\ create_results = <<>>

InitOther == InitAds /\ InitCalc /\ InitInvIdle

(***************************************************************************)
(* Specification of repeated runs of the exporter                          *)
(***************************************************************************)
ApiChoices == { S \in SUBSET PoolIds : Cardinality(S) \in 1..MaxApiOrders }

InitFetch ==
    /\ files = EmptyDict
    /\ dirs = {}
    /\ api_ids \in ApiChoices
    /\ today = Today
    /\ runs = 0
    /\ pc = "idle"
    /\ fn = "bulk"
    /\ date_from = 1
    /\ date_to = 1
    /\ cache_days_threshold = Finite(DefaultCacheDaysThreshold)
    /\ all_orders = <<>>
    /\ dates_to_fetch = <<>>
    /\ sort_order = "DESC"
    /\ orders_by_date = EmptyDict
    /\ batch_num = 1
    /\ next_cursor = NoCursor
    /\ result = <<>>
    /\ bulk_orders = <<>>
    /\ has_next_page = TRUE
    /\ cursor = NoCursor
    /\ retry_count = 0
    /\ success = FALSE
    /\ consecutive_errors = 0
    /\ max_orders = BulkMaxOrders
    /\ requests = <<>>
    /\ slept = <<>>
    /\ cache_read = {}
    /\ files_before = EmptyDict
    /\ request_failed = FALSE
    /\ file_reads = {}
    /\ InitOther

FetchTry ==
    \/ \E n \in 0..PageLimit, last_cursor_null \in BOOLEAN :
           TrySucceeds(n, last_cursor_null) /\ UNCHANGED logVars
    \/ TryFails /\ UNCHANGED logVars

NextFetch ==
    \/ \E from \in Dates, to \in Dates, clear_cache \in BOOLEAN,
          no_cache \in BOOLEAN :
           from <= to /\ StartRun(from, to, clear_cache, no_cache)
    \/ ScanCache
    \/ BeginBatch
    \/ PageLoop
    \/ FetchTry
    \/ EndBatch
    \/ StoreDates
    \/ FinalValidate

SpecFetch == InitFetch /\ [][NextFetch]_vars


(***************************************************************************)
(* Properties of fetch_orders (checked under SpecFetch)                    *)
(***************************************************************************)
InRange(d) == date_from <= d /\ d <= date_to

AfterScan == pc \notin {"idle", "scan"}

Parsable(o) == o.pur_date.kind \in {"datetime", "date"}

Older(d) == ~LeqThreshold(DaysAgo(today, d), cache_days_threshold)

ReadableFile(fs, d) ==
    get_cache_filename(d) \in DOMAIN fs /\ fs[get_cache_filename(d)].valid

SameFile(fs1, fs2, path) ==
    /\ (path \in DOMAIN fs1) = (path \in DOMAIN fs2)
    /\ path \in DOMAIN fs1 => fs1[path] = fs2[path]

\* C1: every order returned by fetch_orders has a pur_date whose date part
\* parses and lies in [date_from, date_to], whether it came from the API or
\* from a cache file.
C1_ResultInRange ==
    pc = "done" =>
        \A k \in 1..Len(result) :
            Parsable(result[k]) /\ InRange(result[k].pur_date.day)

\* C1 witness: a run that took orders from the cache and from the API
\* returned orders while the API held an order outside the range or with a
\* missing or unparsable pur_date.
C1_Witness ==
    /\ pc = "done" /\ result # <<>>
    /\ \E d \in cache_read : ServedFromCache(files_before, today, cache_days_threshold, d)
    /\ dates_to_fetch # <<>>
    /\ \E i \in api_ids : ~Parsable(OrderPool[i]) \/ ~InRange(OrderPool[i].pur_date.day)

\* C2: no order returned by fetch_orders has an excluded status name, for
\* orders fetched in this run and for orders loaded from cache files
\* written by earlier runs.
C2_NoExcludedStatus ==
    pc = "done" =>
        \A k \in 1..Len(result) : StatusName(result[k]) \notin ExcludedStatuses

\* C2 witness: a run returned orders of a date it served from the cache
\* while the API holds an order of that date with an excluded status.
C2_Witness ==
    /\ pc = "done" /\ result # <<>>
    /\ \E d \in cache_read :
          /\ ServedFromCache(files_before, today, cache_days_threshold, d)
          /\ \E i \in api_ids :
                /\ Parsable(OrderPool[i]) /\ OrderPool[i].pur_date.day = d
                /\ StatusName(OrderPool[i]) \in ExcludedStatuses

\* C3: provided every API request succeeds, fetch_orders returns every order
\* the API holds whose pur_date lies in the range and whose status is not
\* excluded, whichever dates are already cached.
C3_AllOrdersReturned ==
    (pc = "done" /\ ~request_failed) =>
        \A i \in api_ids :
            ( /\ Parsable(OrderPool[i])
              /\ InRange(OrderPool[i].pur_date.day)
              /\ StatusName(OrderPool[i]) \notin ExcludedStatuses )
            => OrderPool[i] \in SeqToSet(result)

\* C4: every date of the range that is older than the threshold and has a
\* readable cache file is served from that file and is not put into
\* dates_to_fetch, also when the cached list of orders is empty.
C4_CachedDateNotRefetched ==
    AfterScan =>
        \A d \in Dates :
            (InRange(d) /\ Older(d) /\ ReadableFile(files_before, d))
            => /\ d \notin SeqToSet(dates_to_fetch)
               /\ SeqToSet(files_before[get_cache_filename(d)].orders)
                      \subseteq SeqToSet(all_orders)

\* C5: for every date at most cache_days_threshold days before today,
\* should_use_cache returns false even when a cache file for the date
\* exists, fetch_orders puts the date into dates_to_fetch and writes no
\* cache file for it.
C5_RecentDateAlwaysFetched ==
    AfterScan =>
        \A d \in Dates :
            (InRange(d) /\ LeqThreshold(DaysAgo(today, d), cache_days_threshold))
            => /\ ~should_use_cache(files, today, cache_days_threshold, d)
               /\ ~should_use_cache(
                      save_to_cache_simple(files, dirs, Now(runs, today), d, <<>>),
                      today, cache_days_threshold, d)
               /\ d \in SeqToSet(dates_to_fetch)
               /\ SameFile(files, files_before, get_cache_filename(d))

\* C5 witness: a run with the default threshold finished for a range that
\* holds a date exactly threshold days old and an older date whose cache
\* file it wrote.
C5_Witness ==
    /\ pc = "done" /\ ~cache_days_threshold.inf
    /\ \E d \in Dates : InRange(d) /\ DaysAgo(today, d) = cache_days_threshold.days
    /\ \E d \in Dates : InRange(d) /\ ~SameFile(files, files_before, get_cache_filename(d))
    /\ result # <<>>

\* C10: with --no-cache (threshold = infinity) fetch_orders reads no order
\* cache file, puts every date of the range into dates_to_fetch and writes
\* no order cache file; existing cache files are left unchanged.
C10_NoCacheRun ==
    (AfterScan /\ cache_days_threshold.inf) =>
        /\ cache_read = {}
        /\ dates_to_fetch = Range(date_from, date_to)
        /\ files = files_before

\* C10 witness: a --no-cache run finished and returned orders while a cache
\* file for a date of its range existed.
C10_Witness ==
    /\ pc = "done" /\ cache_days_threshold.inf /\ result # <<>>
    /\ \E d \in Dates : InRange(d) /\ ReadableFile(files, d)


(***************************************************************************)
(* The three paginating functions on their own: fetch_all_orders_bulk,     *)
(* fetch_orders_for_period and fetch_orders_for_month, with the history of *)
(* the page queries they send and of the delays they wait                  *)
(***************************************************************************)
\* the status filter written out in fetch_orders_for_period, lines 924-943
PeriodStatusFilter(orders) ==
    LET Keep(o) == StatusName(o) \notin ExcludedStatuses
    IN  SelectSeq(orders, Keep)

\* fetch_orders_for_period, lines 907-953: what the function returns
fetch_orders_for_period_result(orders, from, to) ==
    LET InPeriod(o) == /\ HasPurDate(o)
                       /\ ParsePurDate(o) # ParseError
                       /\ from <= ParsePurDate(o) /\ ParsePurDate(o) <= to
    IN  PeriodStatusFilter(SelectSeq(orders, InPeriod))

\* the status filter written out in fetch_orders_for_month, lines 414-433
MonthStatusFilter(orders) ==
    LET Keep(o) == StatusName(o) \notin ExcludedStatuses
    IN  SelectSeq(orders, Keep)

\* fetch_orders_for_month, lines 397-443: what the function returns
fetch_orders_for_month_result(orders, from, to) ==
    LET InMonth(o) == /\ HasPurDate(o)
                      /\ ParsePurDate(o) # ParseError
                      /\ from <= ParsePurDate(o) /\ ParsePurDate(o) <= to
    IN  MonthStatusFilter(SelectSeq(orders, InMonth))

\* the return statement of the function that is running
PagingReturn ==
    /\ pc = "page_return"
    /\ result' = CASE fn = "bulk" -> bulk_orders
                   [] fn = "period" ->
                          fetch_orders_for_period_result(bulk_orders, date_from, date_to)
                   [] fn = "month" ->
                          fetch_orders_for_month_result(bulk_orders, date_from, date_to)
    /\ pc' = "returned"
    /\ UNCHANGED <<otherVars, files, dirs, runVars, fetchVars, pageVars, logVars, histVars>>

\* client.execute(ORDER_QUERY, variable_values=variables) with its outcome
LoggedRequest(ok, n) == [cursor |-> cursor, ok |-> ok, n |-> n]

PagingTry ==
    \/ \E n \in 0..PageLimit, last_cursor_null \in BOOLEAN :
          /\ TrySucceeds(n, last_cursor_null)
          /\ requests' = Append(requests, LoggedRequest(TRUE, n))
          /\ UNCHANGED slept
    \/ /\ TryFails
       /\ requests' = Append(requests, LoggedRequest(FALSE, 0))
       \* time.sleep(retry_delay) in the branch retry_count < max_retries
       /\ slept' = IF retry_count' < MaxRetries THEN Append(slept, RetryDelay)
                   ELSE slept

StartCursors == {NoCursor} \cup 0..MaxApiOrders

InitPaging ==
    /\ files = EmptyDict
    /\ dirs = InitDirs({})
    /\ api_ids \in ApiChoices
    /\ today = Today
    /\ runs = 1
    /\ pc = "page_loop"
    /\ fn \in {"bulk", "period", "month"}
    /\ date_from \in Dates
    /\ date_to = MaxDate
    /\ cache_days_threshold = Finite(DefaultCacheDaysThreshold)
    /\ all_orders = <<>>
    /\ dates_to_fetch = <<>>
    /\ sort_order \in {"ASC", "DESC"}
    /\ fn # "bulk" => sort_order = "ASC"
    /\ orders_by_date = EmptyDict
    /\ batch_num = 1
    /\ next_cursor = NoCursor
    /\ result = <<>>
    /\ bulk_orders = <<>>
    /\ has_next_page = TRUE
    /\ cursor \in StartCursors
    /\ cursor # NoCursor => (fn = "bulk" /\ cursor <= Cardinality(api_ids))
    /\ retry_count = 0
    /\ success = FALSE
    /\ consecutive_errors = 0
    /\ max_orders \in {1, BulkMaxOrders}
    /\ fn # "bulk" => max_orders = BulkMaxOrders
    /\ requests = <<>>
    /\ slept = <<>>
    /\ cache_read = {}
    /\ files_before = EmptyDict
    /\ request_failed = FALSE
    /\ file_reads = {}
    /\ InitOther

NextPaging ==
    \/ PageLoop
    \/ PagingTry
    \/ PagingReturn

SpecPaging == InitPaging /\ [][NextPaging]_vars

RECURSIVE PagesOf(_)
\* the orders of the pages the successful requests of a history returned
PagesOf(reqs) ==
    IF reqs = <<>> THEN <<>>
    ELSE (IF Head(reqs).ok
          THEN ApiPage(api_ids, sort_order, Head(reqs).cursor, Head(reqs).n)
          ELSE <<>>) \o PagesOf(Tail(reqs))

FailedAt(k) == k \in 1..Len(requests) /\ ~requests[k].ok

ThirdFailureAt(k) == FailedAt(k) /\ FailedAt(k - 1) /\ FailedAt(k - 2)

NoneNumber == [none |-> TRUE, value |-> 0]
Number(n) == [none |-> FALSE, value |-> n]

\* the state of every variable of the exporter when no run is in progress
InitExporterIdle ==
    /\ files = EmptyDict
    /\ dirs = {}
    /\ api_ids = {}
    /\ today = Today
    /\ runs = 0
    /\ fn = "bulk"
    /\ date_from = 1
    /\ date_to = 1
    /\ cache_days_threshold = Finite(DefaultCacheDaysThreshold)
    /\ all_orders = <<>>
    /\ dates_to_fetch = <<>>
    /\ sort_order = "DESC"
    /\ orders_by_date = EmptyDict
    /\ batch_num = 1
    /\ next_cursor = NoCursor
    /\ result = <<>>
    /\ bulk_orders = <<>>
    /\ has_next_page = TRUE
    /\ cursor = NoCursor
    /\ retry_count = 0
    /\ success = FALSE
    /\ consecutive_errors = 0
    /\ max_orders = BulkMaxOrders
    /\ requests = <<>>
    /\ slept = <<>>
    /\ cache_read = {}
    /\ files_before = EmptyDict
    /\ request_failed = FALSE
    /\ file_reads = {}

exporterVars == <<files, dirs, result, runVars, fetchVars, pageVars, logVars, histVars>>

\* flatten_order, lines 960-963 and 979-1024: the order-level columns
base_data(order) ==
    [ order_num |-> order.order_num,
      purchase_date |-> order.pur_date,
      status_name |-> IF order.status.null THEN "None" ELSE order.status.name,
      customer_email |-> IF order.customer.null THEN "None" ELSE order.customer.email ]

\* flatten_order, lines 1031-1092: the row of the idx-th item
item_row(order, total_items, idx, item) ==
    [ order_num |-> base_data(order).order_num,
      purchase_date |-> base_data(order).purchase_date,
      status_name |-> base_data(order).status_name,
      customer_email |-> base_data(order).customer_email,
      total_items_in_order |-> Number(total_items),
      item_number |-> Number(idx),
      item_label |-> item.item_label,
      \* item.get('quantity', 1) or 1
      item_quantity |-> IF item.quantity = 0 THEN 1 ELSE item.quantity ]

\* flatten_order, lines 1094-1097: the single row of an order without items
order_only_row(order) ==
    [ order_num |-> base_data(order).order_num,
      purchase_date |-> base_data(order).purchase_date,
      status_name |-> base_data(order).status_name,
      customer_email |-> base_data(order).customer_email,
      total_items_in_order |-> Number(0),
      item_number |-> NoneNumber ]

\* BizniWebExporter.flatten_order: the rows, or the exception it raises.
\* items = order.get('items', []) is None when the field is null, and
\* len(None) raises TypeError.
flatten_order(order) ==
    IF order.items.present /\ order.items.null
    THEN [raised |-> "TypeError", rows |-> <<>>]
    ELSE LET items == IF order.items.present THEN order.items.list ELSE <<>>
             total_items == Len(items)
         IN  IF items # <<>>
             THEN [raised |-> "",
                   rows |-> [idx \in 1..total_items |->
                               item_row(order, total_items, idx, items[idx])]]
             ELSE [raised |-> "", rows |-> <<order_only_row(order)>>]

ItemChoices == [item_label : {"A", "B"}, quantity : {0, 2}]

RECURSIVE SeqsUpTo(_, _)
\* the sequences over S of length at most n
SeqsUpTo(S, n) ==
    IF n = 0 THEN {<<>>}
    ELSE SeqsUpTo(S, n - 1) \cup
         { Append(q, x) : q \in { r \in SeqsUpTo(S, n - 1) : Len(r) = n - 1 }, x \in S }

ItemsFieldChoices ==
    { [present |-> FALSE, null |-> FALSE, list |-> <<>>],
      [present |-> TRUE, null |-> TRUE, list |-> <<>>] }
    \cup { [present |-> TRUE, null |-> FALSE, list |-> l] : l \in SeqsUpTo(ItemChoices, MaxItems) }

FlattenInputs ==
    [ order_num : {"2025001", "2025002"},
      pur_date : {"2025-05-01 10:00:00"},
      status : { [null |-> TRUE, name |-> ""], [null |-> FALSE, name |-> "Odoslana"] },
      customer : { [null |-> TRUE, email |-> ""], [null |-> FALSE, email |-> "a@example.com"] },
      items : ItemsFieldChoices ]

InitFlatten ==
    /\ InitExporterIdle
    /\ InitAds
    /\ InitInvIdle
    /\ pc = "call"
    /\ input \in FlattenInputs
    /\ output = NoValue

CallFlattenOrder ==
    /\ pc = "call"
    /\ output' = flatten_order(input)
    /\ pc' = "return"
    /\ UNCHANGED <<exporterVars, adVars, invVars, input>>

NextFlatten == CallFlattenOrder

SpecFlatten == InitFlatten /\ [][NextFlatten]_vars

HasItems(order) ==
    order.items.present /\ ~order.items.null /\ order.items.list # <<>>

\* C7: flatten_order returns exactly one row per item, numbered 1..n in item
\* order with total_items_in_order = n, and exactly one row
\* (total_items_in_order = 0, item_number = None) when the order has no
\* items, including when the items field is absent or null; every row
\* carries the same order-level fields.
C7_OneRowPerItem ==
    pc = "return" =>
        /\ output.raised = ""
        /\ IF HasItems(input)
           THEN /\ Len(output.rows) = Len(input.items.list)
                /\ \A k \in 1..Len(output.rows) :
                      /\ output.rows[k].item_number = Number(k)
                      /\ output.rows[k].total_items_in_order = Number(Len(input.items.list))
                      /\ output.rows[k].item_label = input.items.list[k].item_label
           ELSE /\ Len(output.rows) = 1
                /\ output.rows[1].total_items_in_order = Number(0)
                /\ output.rows[1].item_number = NoneNumber
        /\ \A k \in 1..Len(output.rows) :
              /\ output.rows[k].order_num = input.order_num
              /\ output.rows[k].purchase_date = input.pur_date
              /\ output.rows[k].status_name = base_data(input).status_name
              /\ output.rows[k].customer_email = base_data(input).customer_email


(***************************************************************************)
(* BizniWebExporter.calculate_clv_and_return_time: the weekly CAC          *)
(*                                                                         *)
(* The data frame has one row per order item; after drop_duplicates on     *)
(* order_num it has one row per order.  An order of the model is that row: *)
(* order_num, customer_email, the day of purchase_datetime and the         *)
(* fb_ads_daily_spend column, which export_to_csv (lines 1151-1156) filled *)
(* with the Facebook spend of the order's day.  Amounts are cents.         *)
(***************************************************************************)
DaysPerWeek == 7
SpendUnit == 100

CacDays == {1, 2, DaysPerWeek + 1}

\* purchase_datetime.dt.to_period('W'): the number of the week of a day
year_week(day) == (day - 1) \div DaysPerWeek

RECURSIVE SumOver(_, _)
\* the sum of f[x] for x in S
SumOver(f, S) ==
    IF S = {} THEN 0
    ELSE LET x == CHOOSE y \in S : TRUE IN f[x] + SumOver(f, S \ {x})

\* round(a / b, 2) of amounts in cents: the nearest cent, ties to even
RoundDiv(a, b) ==
    LET q == a \div b
        r == a % b
    IN  IF 2 * r < b THEN q
        ELSE IF 2 * r > b THEN q + 1
        ELSE IF q % 2 = 0 THEN q ELSE q + 1

\* export_to_csv, lines 1151-1156: the fb_ads_daily_spend column of a row
fb_ads_daily_spend_column(spend, day) ==
    IF spend = EmptyDict THEN 0
    ELSE IF day \in DOMAIN spend THEN spend[day] ELSE 0

\* export_to_csv, lines 1158-1165: the google_ads_daily_spend column of a row
google_ads_daily_spend_column(spend, day) ==
    IF spend = EmptyDict THEN 0
    ELSE IF day \in DOMAIN spend THEN spend[day] ELSE 0

\* calculate_clv_and_return_time, lines 1634-1640: the customers of the
\* week whose first order lies in the week
new_customers(orders, week) ==
    { c \in { o.customer_email : o \in orders } :
        /\ \E o \in orders : o.customer_email = c /\ year_week(o.day) = week
        /\ LET first == CHOOSE o \in orders :
                            /\ o.customer_email = c
                            /\ \A q \in orders : q.customer_email = c => o.day <= q.day
           IN  year_week(first.day) = week }

\* the sum with one term per order of the week
RECURSIVE SumSpendOfOrders(_, _)
SumSpendOfOrders(spend, orders) ==
    IF orders = {} THEN 0
    ELSE LET o == CHOOSE x \in orders : TRUE
         IN  fb_ads_daily_spend_column(spend, o.day) + SumSpendOfOrders(spend, orders \ {o})

\* lines 1648: week_fb_spend = week_orders['fb_ads_daily_spend'].sum()
week_fb_spend(spend, orders, week) ==
    SumSpendOfOrders(spend, { o \in orders : year_week(o.day) = week })

\* lines 1621-1666: the cac column, one value per week that has an order
weekly_cac(spend, orders) ==
    [ week \in { year_week(o.day) : o \in orders } |->
        LET n == Cardinality(new_customers(orders, week))
        IN  IF n > 0 THEN RoundDiv(week_fb_spend(spend, orders, week), n) ELSE 0 ]

CacOrderChoices ==
    { [order_num |-> 10 * day + c, customer_email |-> c, day |-> day] :
        c \in 1..2, day \in CacDays }

CacInputs ==
    [ orders : { S \in SUBSET CacOrderChoices : Cardinality(S) \in 1..MaxCacOrders },
      spend : [ CacDays -> { k * SpendUnit : k \in 0..MaxSpend } ] ]

InitCac ==
    /\ InitExporterIdle
    /\ InitAds
    /\ InitInvIdle
    /\ pc = "call"
    /\ input \in CacInputs
    /\ output = NoValue

CallCalculateClv ==
    /\ pc = "call"
    /\ output' = [cac |-> weekly_cac(input.spend, input.orders)]
    /\ pc' = "return"
    /\ UNCHANGED <<exporterVars, adVars, invVars, input>>

NextCac == CallCalculateClv

SpecCac == InitCac /\ [][NextCac]_vars

\* the ad spend of a week: the daily spend of each of its days counted once
SpendOfWeek(spend, week) ==
    SumOver(spend, { d \in DOMAIN spend : year_week(d) = week })

\* C8: for each week the cac equals the ad spend of the week (each day
\* counted once) divided by the number of customers whose first order
\* falls in the week, and is 0 when the week has no new customer; it does
\* not depend on how many orders were placed on a day.
C8_CacIsWeekSpendPerNewCustomer ==
    pc = "return" =>
        \A week \in DOMAIN output.cac :
            LET n == Cardinality(new_customers(input.orders, week))
            IN  output.cac[week] =
                    IF n > 0 THEN RoundDiv(SpendOfWeek(input.spend, week), n) ELSE 0


(***************************************************************************)
(* FacebookAdsClient and GoogleAdsClient: daily spend with a JSON cache    *)
(* per requested range, and the part of main() / export_to_csv that calls  *)
(* them                                                                    *)
(***************************************************************************)
None == [none |-> TRUE, daily_spend |-> EmptyDict]
Some(daily_spend) == [none |-> FALSE, daily_spend |-> daily_spend]

AdCacheContent(writer, daily_spend, stamp) ==
    [valid |-> TRUE, writer |-> writer, orders |-> <<>>,
     daily_spend |-> daily_spend, cached_at |-> stamp]

\* the daily spend the two ad APIs report for a range, in cents
FbApiSpend(from, to) == [d \in from..to |-> d * SpendUnit]
GoogleApiSpend(from, to) == [d \in from..to |-> (d + 1) * SpendUnit]

\* FacebookAdsClient.should_use_cache
fb_should_use_cache(now, date) == DaysAgo(now, date) > FbCacheDaysThreshold

\* FacebookAdsClient.load_from_cache
fb_load_from_cache(fs, now, from, to) ==
    LET cache_file == fb_get_cache_filename(from, to) IN
    IF cache_file \notin DOMAIN fs THEN None
    ELSE IF ~fs[cache_file].valid THEN None
    ELSE IF now - fs[cache_file].cached_at.day > FbCacheExpiryDays THEN None
    ELSE Some(fs[cache_file].daily_spend)

\* FacebookAdsClient.save_to_cache
fb_save_to_cache(fs, ds, stamp, from, to, daily_spend) ==
    WriteFile(fs, ds, fb_get_cache_filename(from, to),
              AdCacheContent("fb", daily_spend, stamp))

\* GoogleAdsClient.should_use_cache
google_should_use_cache(now, date) == DaysAgo(now, date) > GoogleCacheDaysThreshold

\* GoogleAdsClient.load_from_cache
google_load_from_cache(fs, now, from, to) ==
    LET cache_file == google_get_cache_filename(from, to) IN
    IF cache_file \notin DOMAIN fs THEN None
    ELSE IF ~fs[cache_file].valid THEN None
    ELSE IF now - fs[cache_file].cached_at.day > GoogleCacheExpiryDays THEN None
    ELSE Some(fs[cache_file].daily_spend)

\* GoogleAdsClient.save_to_cache
google_save_to_cache(fs, ds, stamp, from, to, daily_spend) ==
    WriteFile(fs, ds, google_get_cache_filename(from, to),
              AdCacheContent("google", daily_spend, stamp))

AdApiCall(client, run, ok) == [client |-> client, run |-> run, ok |-> ok]

\* a fetch that caches the empty mapping of a failed request
fb_fetch_from_api_caching_failure(api_ok, use, fs, ds, stamp, from, to) ==
    LET daily_spend == IF api_ok THEN FbApiSpend(from, to) ELSE EmptyDict
    IN  [daily_spend |-> daily_spend,
         files |-> IF use THEN fb_save_to_cache(fs, ds, stamp, from, to, daily_spend)
                   ELSE fs]

\* FacebookAdsClient.get_daily_spend, lines 121-181: the request, the
\* processing of the response and the save; use: should_use_cache(date_to)
fb_fetch_from_api(api_ok, use, fs, ds, stamp, from, to) ==
    IF api_ok
    THEN [daily_spend |-> FbApiSpend(from, to),
          files |-> IF use
                    THEN fb_save_to_cache(fs, ds, stamp, from, to, FbApiSpend(from, to))
                    ELSE fs]
    ELSE [daily_spend |-> EmptyDict, files |-> fs]

\* a client that goes on without its credentials
fb_not_configured_never(is_configured) == FALSE

\* export_to_csv, line 1125, and FacebookAdsClient.get_daily_spend, lines
\* 109-110
fb_not_configured(is_configured) == ~is_configured

\* export_to_csv, line 1133, and GoogleAdsClient.get_daily_spend, lines
\* 141-142; is_configured is false also when the SDK client is None
google_not_configured(is_configured) == ~is_configured

\* main, lines 1841-1849, export_to_csv, lines 1123-1129, and
\* FacebookAdsClient.get_daily_spend; api_ok: the request and the
\* processing of its response succeed
FbGetDailySpend(api_ok) ==
    /\ pc = "done"
    /\ result # <<>>
    /\ IF fb_not_configured(fb_is_configured)
       THEN /\ fb_daily_spend' = EmptyDict
            /\ UNCHANGED <<files, file_reads, ad_api_calls>>
       ELSE LET use == fb_should_use_cache(today, date_to)
                cache_file == fb_get_cache_filename(date_from, date_to)
                cached_data == IF use
                               THEN fb_load_from_cache(files, today, date_from, date_to)
                               ELSE None
                fetched == fb_fetch_from_api(api_ok, use, files, dirs, Now(runs, today),
                                             date_from, date_to)
            IN  /\ file_reads' =
                       IF use /\ cache_file \in DOMAIN files
                       THEN file_reads \cup {FileRead("fb", files, cache_file)}
                       ELSE file_reads
                /\ ad_api_calls' = IF cached_data.none
                                   THEN Append(ad_api_calls, AdApiCall("fb", runs, api_ok))
                                   ELSE ad_api_calls
                /\ IF ~cached_data.none
                   THEN /\ fb_daily_spend' = cached_data.daily_spend
                        /\ UNCHANGED files
                   ELSE /\ fb_daily_spend' = fetched.daily_spend
                        /\ files' = fetched.files
    /\ pc' = "export_google"
    /\ UNCHANGED <<dirs, result, runVars, fetchVars, pageVars, logVars, cache_read,
                   files_before, request_failed, fb_is_configured,
                   google_is_configured, google_ads_daily_spend, calcVars, invVars>>

\* export_to_csv, lines 1131-1137, and GoogleAdsClient.get_daily_spend
GoogleGetDailySpend(api_ok) ==
    /\ pc = "export_google"
    /\ IF google_not_configured(google_is_configured)
       THEN /\ google_ads_daily_spend' = EmptyDict
            /\ UNCHANGED <<files, file_reads, ad_api_calls>>
       ELSE LET use == google_should_use_cache(today, date_to)
                cache_file == google_get_cache_filename(date_from, date_to)
                cached_data == IF use
                               THEN google_load_from_cache(files, today, date_from, date_to)
                               ELSE None
                daily_spend == GoogleApiSpend(date_from, date_to)
            IN  /\ file_reads' =
                       IF use /\ cache_file \in DOMAIN files
                       THEN file_reads \cup {FileRead("google", files, cache_file)}
                       ELSE file_reads
                /\ ad_api_calls' = IF cached_data.none
                                   THEN Append(ad_api_calls, AdApiCall("google", runs, api_ok))
                                   ELSE ad_api_calls
                /\ IF ~cached_data.none
                   THEN /\ google_ads_daily_spend' = cached_data.daily_spend
                        /\ UNCHANGED files
                   ELSE IF api_ok
                   THEN /\ google_ads_daily_spend' = daily_spend
                        /\ files' = IF use
                                    THEN google_save_to_cache(files, dirs, Now(runs, today),
                                                              date_from, date_to, daily_spend)
                                    ELSE files
                   ELSE /\ google_ads_daily_spend' = EmptyDict
                        /\ UNCHANGED files
    /\ pc' = "exported"
    /\ UNCHANGED <<dirs, result, runVars, fetchVars, pageVars, logVars, cache_read,
                   files_before, request_failed, fb_is_configured,
                   google_is_configured, fb_daily_spend, calcVars, invVars>>

InitCache ==
    /\ files = EmptyDict
    /\ dirs = {}
    /\ api_ids \in { S \in ApiChoices : Cardinality(S) = 1 /\
                         \A i \in S : /\ StatusName(OrderPool[i]) = "Odoslana"
                                      /\ ParsePurDate(OrderPool[i]) # ParseError }
    /\ today = Today
    /\ runs = 0
    /\ pc = "idle"
    /\ fn = "bulk"
    /\ date_from = 1
    /\ date_to = 1
    /\ cache_days_threshold = Finite(DefaultCacheDaysThreshold)
    /\ all_orders = <<>>
    /\ dates_to_fetch = <<>>
    /\ sort_order = "DESC"
    /\ orders_by_date = EmptyDict
    /\ batch_num = 1
    /\ next_cursor = NoCursor
    /\ result = <<>>
    /\ bulk_orders = <<>>
    /\ has_next_page = TRUE
    /\ cursor = NoCursor
    /\ retry_count = 0
    /\ success = FALSE
    /\ consecutive_errors = 0
    /\ max_orders = BulkMaxOrders
    /\ requests = <<>>
    /\ slept = <<>>
    /\ cache_read = {}
    /\ files_before = EmptyDict
    /\ request_failed = FALSE
    /\ file_reads = {}
    /\ fb_is_configured \in BOOLEAN
    /\ google_is_configured \in BOOLEAN
    /\ fb_daily_spend = EmptyDict
    /\ google_ads_daily_spend = EmptyDict
    /\ ad_api_calls = <<>>
    /\ InitCalc
    /\ InitInvIdle

\* between two runs the credentials in the environment change:
\* FacebookAdsClient.__init__ and GoogleAdsClient.__init__ of the next run
Reconfigure(fb, google) ==
    /\ pc = "exported"
    /\ runs < MaxRuns
    /\ <<fb, google>> # <<fb_is_configured, google_is_configured>>
    /\ fb_is_configured' = fb
    /\ google_is_configured' = google
    /\ pc' = "idle"
    /\ UNCHANGED <<files, dirs, result, runVars, fetchVars, pageVars, logVars, histVars,
                   fb_daily_spend, google_ads_daily_spend, ad_api_calls, calcVars,
                   invVars>>

NextCache ==
    \/ \E from \in Dates, to \in Dates \cup {Today}, clear_cache \in BOOLEAN :
           /\ from <= to
           /\ pc = "done" => result = <<>>
           /\ StartRun(from, to, clear_cache, FALSE)
    \/ ScanCache
    \/ BeginBatch
    \/ PageLoop
    \* the shop API answers every page query
    \/ \E n \in 0..PageLimit, last_cursor_null \in BOOLEAN :
           TrySucceeds(n, last_cursor_null) /\ UNCHANGED logVars
    \/ EndBatch
    \/ StoreDates
    \/ FinalValidate
    \/ \E api_ok \in BOOLEAN : FbGetDailySpend(api_ok)
    \/ \E api_ok \in BOOLEAN : GoogleGetDailySpend(api_ok)
    \/ \E fb \in BOOLEAN, google \in BOOLEAN : Reconfigure(fb, google)

SpecCache == InitCache /\ [][NextCache]_vars


(***************************************************************************)
(* Independence of the three caches                                        *)
(***************************************************************************)
Clients == {"orders", "fb", "google"}

\* the cache a file belongs to, by its directory
CacheOf(path) ==
    IF path.dir = FbCacheDir THEN "fb"
    ELSE IF path.dir = GoogleCacheDir THEN "google"
    ELSE "orders"

\* the client whose code takes the step
Actor ==
    IF pc = "done" /\ pc' = "export_google" THEN "fb"
    ELSE IF pc = "export_google" THEN "google"
    ELSE "orders"

\* no entry of cache c is removed, added or changed by the step
UnchangedCache(c) ==
    \A path \in (DOMAIN files) \cup (DOMAIN files') :
        CacheOf(path) = c => SameFile(files, files', path)

OthersUnchanged == \A c \in Clients \ {Actor} : UnchangedCache(c)

OwnReadsOnly == \A r \in file_reads : r.client = r.writer /\ r.client = CacheOf(r.path)

\* the step of main() that ends with the call of fetch_orders
IsStartRun == pc \in {"idle", "done", "exported"} /\ pc' = "scan"

\* C9 as stated: no step of one client, the exporter's --clear-cache
\* included, removes or changes an entry of another client's cache, and no
\* client reads a file written by another.
C9_CachesIndependent ==
    [][OthersUnchanged /\ OwnReadsOnly']_vars

\* C9 amended: loading and saving entries of one cache never removes or
\* changes an entry of another and no client reads a file written by
\* another; the one step that touches another client's cache is the
\* exporter's --clear-cache, which removes every file under data/cache, the
\* Facebook Ads and Google Ads caches included.
C9_CachesIndependentExceptClear ==
    [][/\ OwnReadsOnly'
       /\ \/ OthersUnchanged
          \/ IsStartRun /\ files' = EmptyDict]_vars

\* a run in which the exporter, the Facebook client and the Google client
\* each read an entry of their own cache while the other two caches hold
\* entries
C9_Witness ==
    /\ pc = "exported"
    /\ \A c \in Clients : \E path \in DOMAIN files : CacheOf(path) = c
    /\ \A c \in Clients : \E r \in file_reads : r.client = c


(***************************************************************************)
(* generate_invoices.py: InvoiceGenerator                                  *)
(*                                                                         *)
(* A status name is the sequence of its words.  Names are written without  *)
(* diacritics.  The arf token only changes the URLs and is left out.       *)
(***************************************************************************)
MaxInvRequests == 4

LowerWord ==
    [w \in {"Odoslana", "ODOSLANA", "odoslana", "Nova", "nova", "-", "Caka", "caka",
            "na", "vybavenie", "Vybavena", "vybavena"} |->
        CASE w \in {"Odoslana", "ODOSLANA"} -> "odoslana"
          [] w = "Nova" -> "nova"
          [] w = "Caka" -> "caka"
          [] w = "Vybavena" -> "vybavena"
          [] OTHER -> w]

\* str.lower
Lower(name) == [k \in 1..Len(name) |-> LowerWord[name[k]]]

\* sub in s
Contains(s, sub) ==
    \E k \in 0..(Len(s) - Len(sub)) : SubSeq(s, k + 1, k + Len(sub)) = sub

NoInvoices == [present |-> TRUE, null |-> FALSE, list |-> <<>>]
InvStatus(name) == [null |-> FALSE, name |-> name]

\* the entries getOrderList can return; none: the entry is null; pur_date
\* is the day of the date part, 0 for ''
InvOrderPool ==
    << [id |-> 1, none |-> FALSE, has_id |-> TRUE, pur_date |-> 1,
        status |-> InvStatus(<<"Odoslana">>), invoices |-> NoInvoices],
       [id |-> 2, none |-> FALSE, has_id |-> TRUE, pur_date |-> 1,
        status |-> InvStatus(<<"ODOSLANA">>),
        invoices |-> [present |-> FALSE, null |-> FALSE, list |-> <<>>]],
       [id |-> 3, none |-> FALSE, has_id |-> FALSE, pur_date |-> 2,
        status |-> InvStatus(<<"Nova", "-", "Caka", "na", "vybavenie">>),
        invoices |-> [present |-> TRUE, null |-> TRUE, list |-> <<>>]],
       [id |-> 4, none |-> FALSE, has_id |-> TRUE, pur_date |-> 1,
        status |-> InvStatus(<<"Odoslana">>),
        invoices |-> [present |-> TRUE, null |-> FALSE, list |-> <<"invoice">>]],
       [id |-> 5, none |-> FALSE, has_id |-> TRUE, pur_date |-> 2,
        status |-> InvStatus(<<"Vybavena">>), invoices |-> NoInvoices],
       [id |-> 6, none |-> FALSE, has_id |-> TRUE, pur_date |-> 2,
        status |-> [null |-> TRUE, name |-> <<>>], invoices |-> NoInvoices],
       [id |-> 7, none |-> TRUE, has_id |-> FALSE, pur_date |-> 2,
        status |-> [null |-> TRUE, name |-> <<>>], invoices |-> NoInvoices],
       [id |-> 8, none |-> FALSE, has_id |-> TRUE, pur_date |-> 3,
        status |-> InvStatus(<<"Odoslana">>), invoices |-> NoInvoices] >>

InvPoolIds == 1..Len(InvOrderPool)

InvSortKey(i) == InvOrderPool[i].pur_date * 100 + i

\* getOrderList with order_by pur_date, sort ASC
RECURSIVE InvApiOrderList(_)
InvApiOrderList(S) ==
    IF S = {} THEN <<>>
    ELSE LET m == CHOOSE x \in S : \A y \in S : InvSortKey(x) <= InvSortKey(y)
         IN  <<InvOrderPool[m]>> \o InvApiOrderList(S \ {m})

InvApiPage(ids, c, n) ==
    SubSeq(InvApiOrderList(ids), ApiStart(c) + 1, ApiStart(c) + n)

\* InvoiceGenerator.__init__: the web session after the constructor, kept
\* also when the login failed
InitWebSessionKept(credentials, login_ok) == credentials

\* InvoiceGenerator.__init__
InitWebSession(credentials, login_ok) == credentials /\ login_ok

\* valid_orders = [o for o in orders if o is not None]
ValidOrders(orders) == SelectSeq(orders, LAMBDA o : ~o.none)

\* InvoiceGenerator.fetch_orders, lines 591-609: the client-side date filter
InvDateFilter(orders, from, to) ==
    SelectSeq(orders, LAMBDA o : from <= o.pur_date /\ o.pur_date <= to)

StatusNameLower(order) ==
    Lower(IF order.status.null THEN <<>> ELSE order.status.name)

InvoicesOf(order) ==
    IF order.invoices.present /\ ~order.invoices.null THEN order.invoices.list
    ELSE <<>>

\* the criteria without the test of the invoices list
NeedsInvoiceByStatus(order) ==
    \/ StatusNameLower(order) = <<"odoslana">>
    \/ Contains(StatusNameLower(order), <<"caka", "na", "vybavenie">>)

\* InvoiceGenerator.filter_orders_for_invoice, lines 641-642
NeedsInvoice(order) ==
    /\ \/ StatusNameLower(order) = <<"odoslana">>
       \/ Contains(StatusNameLower(order), <<"caka", "na", "vybavenie">>)
    /\ ~(Len(InvoicesOf(order)) > 0)

\* InvoiceGenerator.filter_orders_for_invoice
filter_orders_for_invoice(orders) == SelectSeq(orders, NeedsInvoice)

\* process_orders that goes on to the creation loop in dry-run mode too
AfterFilterIgnoringDryRun(dry) == "inv_create"

\* InvoiceGenerator.process_orders, lines 866-888: dry-run mode returns
\* after the summary, otherwise the creation loop follows
AfterFilter(dry) == IF dry THEN "inv_done" ELSE "inv_create"

\* a request sent over the web session; ok: the login or the validation
\* it asks for succeeded
HttpOk == 200
BadRequest == 400
MethodNotAllowed == 405
ServerError == 500

\* a request of login_web_session or validate_session as the history keeps it
WebCheck(kind, ok) ==
    [kind |-> kind, order |-> 0, ok |-> ok, by |-> "", method |-> "GET",
     status |-> IF ok THEN HttpOk ELSE ServerError, body |-> ""]

FinalizeStatuses == {HttpOk, BadRequest, MethodNotAllowed, ServerError}


\* what no action of generate_invoices.py changes
invFrame == <<files, dirs, runVars, dates_to_fetch, sort_order, orders_by_date,
              batch_num, next_cursor, bulk_orders, retry_count, success,
              consecutive_errors, max_orders, logVars, histVars, adVars, calcVars>>

\* main of generate_invoices.py with InvoiceGenerator.__init__; has_token:
\* BIZNISWEB_API_TOKEN is set; credentials: username and password are
\* given and --no-web-login is not; login_ok: what login_web_session returns
InvMain(has_token, dry, credentials, login_ok) ==
    /\ pc = "idle"
    /\ dry_run' = dry
    /\ IF has_token
       THEN /\ web_session' = InitWebSession(credentials, login_ok)
            /\ web_requests' = IF credentials
                               THEN Append(web_requests, WebCheck("login", login_ok))
                               ELSE web_requests
            /\ pc' = "process"
       ELSE /\ pc' = "inv_done"
            /\ UNCHANGED <<web_session, web_requests>>
    /\ UNCHANGED <<invFrame, create_results, all_orders, has_next_page, cursor, result,
                   orders_for_invoice, inv_requests>>

\* InvoiceGenerator.process_orders, lines 827-859; valid: what
\* validate_session answers for a session that exists
ProcessOrdersStart(valid) ==
    /\ pc = "process"
    /\ IF ~web_session
       THEN /\ pc' = "inv_done"
            /\ UNCHANGED <<web_requests, all_orders, has_next_page, cursor>>
       ELSE /\ web_requests' = Append(web_requests, WebCheck("validate", valid))
            /\ IF ~valid
               THEN /\ pc' = "inv_done"
                    /\ UNCHANGED <<all_orders, has_next_page, cursor>>
               ELSE /\ pc' = "inv_fetch"
                    /\ all_orders' = <<>>
                    /\ has_next_page' = TRUE
                    /\ cursor' = NoCursor
    /\ UNCHANGED <<invFrame, create_results, result, web_session, dry_run, orders_for_invoice,
                   inv_requests>>

InvLoggedRequest(outcome) == [cursor |-> cursor, outcome |-> outcome]

\* InvoiceGenerator.fetch_orders, one iteration of the loop in which the
\* response carries data: the query succeeds (lines 456-471) or raises with
\* usable partial data (lines 481-502)
InvPageData(n, partial, last_cursor_null) ==
    /\ pc = "inv_fetch"
    /\ has_next_page
    /\ Len(inv_requests) < MaxInvRequests
    /\ n <= ApiRemaining(api_ids, cursor)
    /\ n > 0 \/ ApiRemaining(api_ids, cursor) = 0
    /\ LET orders == InvApiPage(api_ids, cursor, n)
           more == ApiRemaining(api_ids, cursor) > n
       IN  /\ all_orders' = all_orders \o ValidOrders(orders)
           /\ has_next_page' = more
           /\ cursor' = IF ~more /\ last_cursor_null THEN NoCursor
                        ELSE ApiStart(cursor) + n
    /\ inv_requests' = Append(inv_requests,
                              InvLoggedRequest(IF partial THEN "partial" ELSE "ok"))
    /\ UNCHANGED <<invFrame, create_results, pc, result, web_session, dry_run, orders_for_invoice,
                   web_requests>>

\* InvoiceGenerator.fetch_orders, lines 473-513 and 589: the query raises
\* without usable data; price_elements: the message holds 'Internal server
\* error' and 'price_elements'
InvPageError(price_elements) ==
    /\ pc = "inv_fetch"
    /\ has_next_page
    /\ Len(inv_requests) < MaxInvRequests
    /\ inv_requests' = Append(inv_requests,
                              InvLoggedRequest(IF price_elements THEN "price_elements"
                                               ELSE "error"))
    /\ pc' = IF price_elements /\ cursor # NoCursor THEN "inv_fetch" ELSE "inv_break"
    /\ UNCHANGED <<invFrame, create_results, all_orders, has_next_page, cursor, result, web_session,
                   dry_run, orders_for_invoice, web_requests>>

\* InvoiceGenerator.fetch_orders, lines 591-609, then process_orders, lines
\* 859-886: the loop has ended, the orders are filtered by date and by the
\* invoice criteria
InvFetchReturn ==
    /\ \/ pc = "inv_fetch" /\ ~has_next_page
       \/ pc = "inv_break"
    /\ result' = InvDateFilter(all_orders, date_from, date_to)
    /\ orders_for_invoice' = filter_orders_for_invoice(result')
    /\ pc' = AfterFilter(dry_run)
    /\ UNCHANGED <<invFrame, create_results, all_orders, has_next_page, cursor, web_session, dry_run,
                   inv_requests, web_requests>>

\* the body of a finalize response: JSON with success true and an invoice
\* id, JSON with success true, JSON without success, and a text that is
\* not JSON with or without the word 'success' or 'invoice'
FinalizeBodies ==
    {"json_success_id", "json_success", "json_failure", "html_marker", "html_plain"}

Response(status, body) == [status |-> status, body |-> body]

\* one pass of the loop over urls_to_try: the response of the POST and,
\* when that is 405, the response of the GET
Attempt(post, get) == [post |-> post, get |-> get]

AttemptResponse(a) == IF a.post.status = MethodNotAllowed THEN a.get ELSE a.post

\* a request of create_invoice as the history keeps it
InvoiceRequest(kind, by, method, order, response, ok) ==
    [kind |-> kind, order |-> order, ok |-> ok, by |-> by, method |-> method,
     status |-> response.status, body |-> response.body]

\* lines 722-727: the requests of one pass
AttemptRequests(by, order, a) ==
    <<InvoiceRequest("finalize", by, "POST", order, a.post, TRUE)>>
    \o (IF a.post.status = MethodNotAllowed
        THEN <<InvoiceRequest("finalize", by, "GET", order, a.get, TRUE)>>
        ELSE <<>>)

\* a list that tries the order id before the order number
urls_to_try_id_first(order) ==
    (IF order.has_id THEN <<"order_id">> ELSE <<>>) \o <<"order_num">>

\* lines 707-709: urls_to_try
urls_to_try(order) ==
    <<"order_num">> \o (IF order.has_id THEN <<"order_id">> ELSE <<>>)

\* lines 737-783: the value create_invoice returns for the last finalize
\* response
FinalizeSucceeded(response) ==
    /\ response.status = HttpOk
    /\ response.body \in {"json_success_id", "json_success", "html_marker"}

\* lines 745-754: send_invoice_email is called
SendsEmail(response) ==
    response.status = HttpOk /\ response.body = "json_success_id"

\* InvoiceGenerator.create_invoice with send_invoice_email, for the next
\* order of the loop of process_orders (lines 894-911).  create_raises: the
\* create request raises; a1, a2: the passes of the finalize loop for the
\* first and the second entry of urls_to_try; email_ok: what
\* send_invoice_email returns
CreateInvoice(create_raises, a1, a2, email_ok) ==
    /\ pc = "inv_create"
    /\ orders_for_invoice # <<>>
    /\ LET order == Head(orders_for_invoice)
           urls == urls_to_try(order)
           first == AttemptResponse(a1)
           second == Len(urls) > 1 /\ first.status # HttpOk
           response == IF second THEN AttemptResponse(a2) ELSE first
           create == <<InvoiceRequest("create", "order_num", "POST", order.id,
                                      Response(HttpOk, "json_success"), ~create_raises)>>
           finalize == AttemptRequests(urls[1], order.id, a1)
                       \o (IF second THEN AttemptRequests(urls[2], order.id, a2)
                           ELSE <<>>)
           send == IF SendsEmail(response)
                   THEN <<InvoiceRequest("sendEmail", "invoice_id", "POST", order.id,
                                         Response(HttpOk, "json_success"), email_ok)>>
                   ELSE <<>>
       IN  /\ web_requests' = IF create_raises THEN web_requests \o create
                              ELSE web_requests \o create \o finalize \o send
           /\ create_results' =
                  Append(create_results,
                         [order |-> order.id,
                          returned |-> ~create_raises /\ FinalizeSucceeded(response),
                          first |-> Len(web_requests) + 1,
                          last |-> Len(web_requests')])
    /\ orders_for_invoice' = Tail(orders_for_invoice)
    /\ UNCHANGED <<invFrame, pc, all_orders, has_next_page, cursor, result,
                   web_session, dry_run, inv_requests>>

\* InvoiceGenerator.process_orders, lines 913-925
ProcessOrdersEnd ==
    /\ pc = "inv_create"
    /\ orders_for_invoice = <<>>
    /\ pc' = "inv_done"
    /\ UNCHANGED <<invFrame, create_results, all_orders, has_next_page, cursor, result, web_session,
                   dry_run, orders_for_invoice, inv_requests, web_requests>>

\* the responses of a finalize request: a body matters for status 200 only
FinalizeResponses ==
    { Response(HttpOk, b) : b \in FinalizeBodies }
    \cup { Response(st, "html_plain") : st \in FinalizeStatuses \ {HttpOk} }

\* the passes of the finalize loop; the GET exists only after a 405
FinalizeAttempts ==
    { Attempt(r[1], r[2]) :
        r \in { x \in FinalizeResponses \X FinalizeResponses :
                  /\ x[2].status # MethodNotAllowed
                  /\ x[1].status # MethodNotAllowed => x[2] = x[1] } }

\* the two passes of a server that either finalizes the invoice or fails
PostAttempts ==
    { Attempt(r, r) : r \in { Response(HttpOk, "json_success_id"),
                              Response(ServerError, "html_plain") } }

InvApiChoices ==
 { S \in SUBSET InvPoolIds : Cardinality(S) \in 1..MaxApiOrders }

InitInvoice ==
    /\ files = EmptyDict
    /\ dirs = {}
    /\ api_ids \in InvApiChoices
    /\ today = Today
    /\ runs = 0
    /\ pc = "idle"
    /\ fn = "invoice"
    /\ date_from \in Dates
    /\ date_to \in Dates
    /\ date_from <= date_to
    /\ cache_days_threshold = Finite(DefaultCacheDaysThreshold)
    /\ all_orders = <<>>
    /\ dates_to_fetch = <<>>
    /\ sort_order = "ASC"
    /\ orders_by_date = EmptyDict
    /\ batch_num = 1
    /\ next_cursor = NoCursor
    /\ result = <<>>
    /\ bulk_orders = <<>>
    /\ has_next_page = TRUE
    /\ cursor = NoCursor
    /\ retry_count = 0
    /\ success = FALSE
    /\ consecutive_errors = 0
    /\ max_orders = BulkMaxOrders
    /\ requests = <<>>
    /\ slept = <<>>
    /\ cache_read = {}
    /\ files_before = EmptyDict
    /\ request_failed = FALSE
    /\ file_reads = {}
    /\ InitAds
    /\ InitCalc
    /\ InitInvIdle

NextInvoice ==
    \/ \E has_token \in BOOLEAN, dry \in BOOLEAN, credentials \in BOOLEAN,
          login_ok \in BOOLEAN : InvMain(has_token, dry, credentials, login_ok)
    \/ \E valid \in BOOLEAN : ProcessOrdersStart(valid)
    \/ \E n \in 0..PageLimit, partial \in BOOLEAN, last_cursor_null \in BOOLEAN :
          InvPageData(n, partial, last_cursor_null)
    \/ \E price_elements \in BOOLEAN : InvPageError(price_elements)
    \/ InvFetchReturn
    \/ \E create_raises \in BOOLEAN, a1 \in PostAttempts, a2 \in PostAttempts :
          CreateInvoice(create_raises, a1, a2, TRUE)
    \/ ProcessOrdersEnd

SpecInvoice == InitInvoice /\ [][NextInvoice]_vars


InvoiceKinds == {"create", "finalize", "sendEmail"}

InvoiceRequests == SelectSeq(web_requests, LAMBDA r : r.kind \in InvoiceKinds)

\* C11: in dry-run mode process_orders never calls create_invoice or
\* send_invoice_email: no invoice create, finalize or sendEmail request is
\* issued for any order, whatever orders match the criteria.
C11_DryRunSendsNoInvoiceRequest ==
    dry_run => InvoiceRequests = <<>>

\* a dry run that ended with orders matching the criteria
C11_Witness ==
    /\ dry_run
    /\ pc = "inv_done"
    /\ orders_for_invoice # <<>>
    /\ inv_requests # <<>>


SelectedByCriteria(o) ==
    /\ ~o.invoices.present \/ o.invoices.null \/ o.invoices.list = <<>>
    /\ ~o.status.null
    /\ \/ Lower(o.status.name) = <<"odoslana">>
       \/ Contains(Lower(o.status.name), <<"caka", "na", "vybavenie">>)

\* C12: process_orders calls create_invoice only for orders that
\* filter_orders_for_invoice selects: the fetched order has an empty (or
\* missing) invoices list and its lower-cased status name equals 'odoslana'
\* or contains 'caka na vybavenie'.  An order whose fetched invoices list is
\* non-empty never gets a create or finalize request.
C12_InvoiceOnlyForSelected ==
    \A k \in 1..Len(web_requests) :
        web_requests[k].kind \in {"create", "finalize"} =>
            /\ \E j \in 1..Len(result) : result[j].id = web_requests[k].order
            /\ SelectedByCriteria(InvOrderPool[web_requests[k].order])
            /\ InvOrderPool[web_requests[k].order].invoices.list = <<>>

\* a run that sent invoice requests while a fetched order of the range
\* already had an invoice
C12_Witness ==
    /\ pc = "inv_done"
    /\ \E k \in 1..Len(web_requests) : web_requests[k].kind = "finalize"
    /\ \E j \in 1..Len(result) : result[j].invoices.list # <<>>


Sent(kind, ok) ==
    \E k \in 1..Len(web_requests) :
        web_requests[k].kind = kind /\ web_requests[k].ok = ok

\* C13: process_orders returns without fetching any order and without any
\* invoice request when there is no web session (no credentials given, or
\* login_web_session returned false so that web_session was reset to None)
\* or when validate_session returns false.
C13_NoSessionNoRequests ==
    pc \notin {"idle", "process"} =>
        /\ web_session => Sent("login", TRUE)
        /\ ~web_session \/ Sent("validate", FALSE) =>
              /\ pc = "inv_done"
              /\ inv_requests = <<>>
              /\ InvoiceRequests = <<>>
              /\ all_orders = <<>>

\* process_orders has returned after a login that succeeded and a
\* validation of the session that failed
C13_Witness ==
    /\ pc = "inv_done"
    /\ web_session
    /\ Sent("validate", FALSE)
    /\ ~dry_run


\* C19: InvoiceGenerator.fetch_orders always terminates: when a page query
\* fails with an 'Internal server error' that mentions price_elements and a
\* cursor is set, the fetch skips to the next page, that is, the next
\* request uses a different cursor and the same request is not repeated;
\* any other unrecoverable error ends pagination and the date-filtered
\* orders fetched so far are returned.
C19_SkipsFailedPage ==
    /\ \A k \in 1..(Len(inv_requests) - 1) :
          /\ inv_requests[k].outcome = "price_elements"
          /\ inv_requests[k].cursor # NoCursor
          => inv_requests[k + 1].cursor # inv_requests[k].cursor
    /\ \A k \in 1..Len(inv_requests) :
          inv_requests[k].outcome = "error" => k = Len(inv_requests)


(***************************************************************************)
(* Ad clients without credentials and failing ad APIs                      *)
(***************************************************************************)
\* export_to_csv, lines 1139-1165: the ad spend columns of the rows of the
\* exported orders
ExportedRows ==
    [k \in 1..Len(result) |->
        [order |-> result[k].id,
         fb_ads_daily_spend |->
             fb_ads_daily_spend_column(fb_daily_spend, ParsePurDate(result[k])),
         google_ads_daily_spend |->
             google_ads_daily_spend_column(google_ads_daily_spend,
                                           ParsePurDate(result[k]))]]

CalledApi(client) ==
    \E k \in 1..Len(ad_api_calls) :
        ad_api_calls[k].client = client /\ ad_api_calls[k].run = runs

ReadCache(client) == \E r \in file_reads : r.client = client

\* cache c holds what it held when the run started
CacheUntouched(c) ==
    \A path \in (DOMAIN files) \cup (DOMAIN files_before) :
        CacheOf(path) = c => SameFile(files, files_before, path)

\* C14: when an ad client is not configured, get_daily_spend gives an empty
\* mapping without calling the ad API and without reading or writing any
\* cache file, and the exporter reports an ad spend of 0 for every row.
C14_NotConfiguredNoSpend ==
    /\ pc \in {"export_google", "exported"} /\ ~fb_is_configured =>
          /\ fb_daily_spend = EmptyDict
          /\ ~CalledApi("fb")
          /\ ~ReadCache("fb")
          /\ CacheUntouched("fb")
          /\ pc = "exported" =>
                \A k \in 1..Len(ExportedRows) : ExportedRows[k].fb_ads_daily_spend = 0
    /\ pc = "exported" /\ ~google_is_configured =>
          /\ google_ads_daily_spend = EmptyDict
          /\ ~CalledApi("google")
          /\ ~ReadCache("google")
          /\ CacheUntouched("google")
          /\ \A k \in 1..Len(ExportedRows) : ExportedRows[k].google_ads_daily_spend = 0

\* an export without Facebook credentials while an earlier run left a
\* Facebook cache file for the same range
C14_Witness ==
    /\ pc = "exported"
    /\ ~fb_is_configured
    /\ fb_get_cache_filename(date_from, date_to) \in DOMAIN files
    /\ Len(ExportedRows) > 0


FailedApi(client, run) ==
    \E k \in 1..Len(ad_api_calls) : ad_api_calls[k] = AdApiCall(client, run, FALSE)

SucceededApi(client, run) ==
    \E k \in 1..Len(ad_api_calls) : ad_api_calls[k] = AdApiCall(client, run, TRUE)

\* every entry of the cache of the client was written by a run whose
\* request succeeded
CacheHoldsFetchedOnly(client) ==
    \A path \in DOMAIN files :
        CacheOf(path) = client => SucceededApi(client, files[path].cached_at.run)

\* C15: when the ad API request or the processing of its response fails,
\* get_daily_spend of both clients returns an empty mapping instead of
\* raising and writes nothing to the cache, so that a failed fetch is never
\* served from cache by a later call.
C15_FailedFetchNotCached ==
    /\ pc \in {"export_google", "exported"} /\ FailedApi("fb", runs) =>
          fb_daily_spend = EmptyDict /\ CacheUntouched("fb")
    /\ pc = "exported" /\ FailedApi("google", runs) =>
          google_ads_daily_spend = EmptyDict /\ CacheUntouched("google")
    /\ CacheHoldsFetchedOnly("fb")
    /\ CacheHoldsFetchedOnly("google")
    /\ \A r \in file_reads :
          r.client \in {"fb", "google"} =>
              SucceededApi(r.client, files[r.path].cached_at.run)

\* the Facebook request of the first run failed for a range old enough to
\* be cached, and the second run asked the API again
C15_Witness ==
    /\ pc = "exported"
    /\ runs = 2
    /\ FailedApi("fb", 1)
    /\ CalledApi("fb")
    /\ fb_should_use_cache(today, date_to)
    /\ DOMAIN files_before # {}


(***************************************************************************)
(* BizniWebExporter.convert_to_eur                                         *)
(*                                                                         *)
(* A rate is its multiple of 1/RateScale, a result the same multiple of    *)
(* the amount's unit.  A currency is a string, "None" for None.            *)
(***************************************************************************)
MaxAmount == 4
RateScale == 10000

\* CURRENCY_RATES_TO_EUR
CURRENCY_RATES_TO_EUR ==
    [c \in {"EUR", "CZK", "HUF", "PLN", "USD"} |->
        CASE c = "EUR" -> 10000
          [] c = "CZK" -> 400
          [] c = "HUF" -> 25
          [] c = "PLN" -> 2300
          [] c = "USD" -> 9200]

CurrencyChoices ==
    {"None", "", "EUR", "eur", "CZK", "czk", "Czk", "HUF", "huf", "PLN", "pln",
     "USD", "usd", "GBP", "gbp"}

\* a conversion that compares the code as it is written
UpperAsWritten(currency) == currency

\* str.upper
Upper(currency) ==
    CASE currency \in {"EUR", "eur"} -> "EUR"
      [] currency \in {"CZK", "czk", "Czk"} -> "CZK"
      [] currency \in {"HUF", "huf"} -> "HUF"
      [] currency \in {"PLN", "pln"} -> "PLN"
      [] currency \in {"USD", "usd"} -> "USD"
      [] currency \in {"GBP", "gbp"} -> "GBP"
      [] OTHER -> currency

\* BizniWebExporter.convert_to_eur; amount is NoneNumber or Number(n)
convert_to_eur(amount, currency) ==
    IF currency \in {"None", ""} \/ amount.none \/ amount.value = 0 THEN 0
    ELSE IF Upper(currency) \notin DOMAIN CURRENCY_RATES_TO_EUR
    THEN amount.value * RateScale
    ELSE amount.value * CURRENCY_RATES_TO_EUR[Upper(currency)]

ConvertInputs ==
    [amount : {NoneNumber} \cup { Number(n) : n \in (0 - MaxAmount)..MaxAmount },
     currency : CurrencyChoices]

InitConvert ==
    /\ InitExporterIdle
    /\ InitAds
    /\ InitInvIdle
    /\ pc = "call"
    /\ input \in ConvertInputs
    /\ output = NoValue

CallConvertToEur ==
    /\ pc = "call"
    /\ output' = convert_to_eur(input.amount, input.currency)
    /\ pc' = "return"
    /\ UNCHANGED <<exporterVars, adVars, invVars, input>>

NextConvert == CallConvertToEur

SpecConvert == InitConvert /\ [][NextConvert]_vars

\* the rate the table gives for a currency code in any case of letters
RateOfCode ==
    [c \in {"EUR", "eur", "CZK", "czk", "Czk", "HUF", "huf", "PLN", "pln", "USD", "usd"} |->
        CASE c \in {"EUR", "eur"} -> 10000
          [] c \in {"CZK", "czk", "Czk"} -> 400
          [] c \in {"HUF", "huf"} -> 25
          [] c \in {"PLN", "pln"} -> 2300
          [] c \in {"USD", "usd"} -> 9200]

\* C16: convert_to_eur(amount, currency) returns 0 when the currency is
\* empty or the amount is zero or empty, returns amount times the rate of
\* CURRENCY_RATES_TO_EUR for a known currency code compared
\* case-insensitively, and returns the amount unchanged for a currency code
\* that is not in the table.
C16_ConvertToEur ==
    pc = "return" =>
        IF input.currency \in {"None", ""} \/ input.amount = NoneNumber
               \/ input.amount = Number(0)
        THEN output = 0
        ELSE IF input.currency \in DOMAIN RateOfCode
        THEN output = input.amount.value * RateOfCode[input.currency]
        ELSE output = input.amount.value * RateScale

\* an amount in Czech crowns with the code in lower case was converted
C16_Witness ==
    /\ pc = "return"
    /\ input.currency = "czk"
    /\ input.amount = Number(MaxAmount)
    /\ output = MaxAmount * 400


(***************************************************************************)
(* BizniWebExporter.create_aggregated_reports: the aggregate by date       *)
(*                                                                         *)
(* A row of the data frame keeps order_num, the day of purchase_date_only, *)
(* the item columns (absent, NaN in the frame, for the row of an order     *)
(* without items) and the two ad spend columns.  Amounts are cents, a date *)
(* is the number of its day in the year 2025.                              *)
(***************************************************************************)
MaxAggRows == 2
PACKAGING_COST_PER_ORDER == 30
FIXED_MONTHLY_COST == 300000

\* 31 January and 1 February
AggDates == {31, 32}

\* calendar.monthrange(date.year, date.month)[1]
days_in_month(date) == IF date <= 31 THEN 31 ELSE 28

\* BizniWebExporter.get_daily_fixed_cost, rounded as on line 1280
fixed_daily_cost(date) == RoundDiv(FIXED_MONTHLY_COST, days_in_month(date))

RECURSIVE SumSeq(_)
\* Series.sum
SumSeq(q) == IF q = <<>> THEN 0 ELSE Head(q) + SumSeq(Tail(q))

\* the group of a date in df.groupby('purchase_date_only')
RowsOfDate(rows, date) == SelectSeq(rows, LAMBDA r : r.date = date)

\* agg 'sum' of an item column: NaN is skipped
SumColumn(rows, column) ==
    SumSeq([k \in 1..Len(rows) |-> IF rows[k].has_item THEN rows[k][column] ELSE 0])

\* agg 'count' in place of 'nunique': every row counts
unique_orders_by_row(rows) == Len(rows)

\* agg 'nunique' of order_num
unique_orders(rows) == Cardinality({ rows[k].order_num : k \in 1..Len(rows) })

\* create_aggregated_reports, lines 1263-1286: the row of date_agg for a
\* date, before the rounding of lines 1295-1301
date_agg_row(rows, date) ==
    LET g == RowsOfDate(rows, date)
        total_quantity == SumColumn(g, "item_quantity")
        total_revenue == SumColumn(g, "item_total_without_tax")
        product_expense == SumColumn(g, "total_expense")
        fb_ads_spend == g[1].fb_ads_daily_spend
        google_ads_spend == g[1].google_ads_daily_spend
        packaging_cost == unique_orders(g) * PACKAGING_COST_PER_ORDER
        total_cost == product_expense + fb_ads_spend + google_ads_spend
                      + packaging_cost + fixed_daily_cost(date)
    IN  [total_quantity |-> total_quantity,
         total_revenue |-> total_revenue,
         product_expense |-> product_expense,
         fb_ads_spend |-> fb_ads_spend,
         google_ads_spend |-> google_ads_spend,
         unique_orders |-> unique_orders(g),
         packaging_cost |-> packaging_cost,
         fixed_daily_cost |-> fixed_daily_cost(date),
         total_cost |-> total_cost,
         net_profit |-> total_revenue - total_cost]

date_agg(rows) ==
    [date \in { rows[k].date : k \in 1..Len(rows) } |-> date_agg_row(rows, date)]

\* the orders of the frame and their dates: two orders of 31 January and
\* one of 1 February
AggOrderDate == <<31, 31, 32>>

AggItemChoices ==
    { [has_item |-> FALSE, item_quantity |-> 0, item_total_without_tax |-> 0,
       total_expense |-> 0],
      [has_item |-> TRUE, item_quantity |-> 1, item_total_without_tax |-> 500,
       total_expense |-> 179],
      [has_item |-> TRUE, item_quantity |-> 2, item_total_without_tax |-> 1998,
       total_expense |-> 0] }

\* the rows flatten_order and export_to_csv produce for the daily spends
AggRowChoices(fb, google) ==
    { [order_num |-> o, date |-> AggOrderDate[o], has_item |-> i.has_item,
       item_quantity |-> i.item_quantity,
       item_total_without_tax |-> i.item_total_without_tax,
       total_expense |-> i.total_expense,
       fb_ads_daily_spend |-> fb_ads_daily_spend_column(fb, AggOrderDate[o]),
       google_ads_daily_spend |-> google_ads_daily_spend_column(google, AggOrderDate[o])] :
      o \in DOMAIN AggOrderDate, i \in AggItemChoices }

AggSpendChoices == {EmptyDict} \cup [AggDates -> {0, SpendUnit}]

AggInputs ==
    UNION { { [rows |-> rows, fb |-> fb, google |-> google] :
              rows \in SeqsUpTo(AggRowChoices(fb, google), MaxAggRows) \ {<<>>} } :
            fb \in AggSpendChoices, google \in {EmptyDict, [d \in AggDates |-> SpendUnit]} }

InitAgg ==
    /\ InitExporterIdle
    /\ InitAds
    /\ InitInvIdle
    /\ pc = "call"
    /\ input \in AggInputs
    /\ output = NoValue

CallCreateAggregatedReports ==
    /\ pc = "call"
    /\ output' = date_agg(input.rows)
    /\ pc' = "return"
    /\ UNCHANGED <<exporterVars, adVars, invVars, input>>

NextAgg == CallCreateAggregatedReports

SpecAgg == InitAgg /\ [][NextAgg]_vars


AggRowsAt(date) == { k \in 1..Len(input.rows) : input.rows[k].date = date }

\* the sum of a column over the rows of a date that have an item
AggSum(date, column) ==
    SumOver([k \in 1..Len(input.rows) |-> input.rows[k][column]],
            { k \in AggRowsAt(date) : input.rows[k].has_item })

\* C17: in the daily aggregate, for every date that has at least one row,
\* total_quantity, total_revenue and product_expense are the sums of
\* item_quantity, item_total_without_tax and total_expense over the rows of
\* the date, unique_orders is the number of distinct order numbers,
\* packaging_cost = 0.3 x unique_orders, total_cost = product_expense +
\* fb_ads_spend + google_ads_spend + packaging_cost + fixed_daily_cost, and
\* net_profit = total_revenue - total_cost (before rounding to 2 decimals).
C17_DailyAggregate ==
    pc = "return" =>
        /\ DOMAIN output = { d \in AggDates : AggRowsAt(d) # {} }
        /\ \A d \in DOMAIN output :
              /\ output[d].total_quantity = AggSum(d, "item_quantity")
              /\ output[d].total_revenue = AggSum(d, "item_total_without_tax")
              /\ output[d].product_expense = AggSum(d, "total_expense")
              /\ output[d].unique_orders =
                     Cardinality({ input.rows[k].order_num : k \in AggRowsAt(d) })
              /\ 10 * output[d].packaging_cost = 3 * 100 * output[d].unique_orders
              /\ output[d].total_cost =
                     output[d].product_expense + output[d].fb_ads_spend
                     + output[d].google_ads_spend + output[d].packaging_cost
                     + output[d].fixed_daily_cost
              /\ output[d].net_profit = output[d].total_revenue - output[d].total_cost

\* a date with two rows of one order that has items, and ad spend
C17_Witness ==
    /\ pc = "return"
    /\ Len(input.rows) = 2
    /\ input.rows[1].order_num = input.rows[2].order_num
    /\ input.rows[1].has_item /\ input.rows[2].has_item
    /\ output[input.rows[1].date].unique_orders = 1
    /\ output[input.rows[1].date].fb_ads_spend > 0
    /\ output[input.rows[1].date].total_quantity > 2


(***************************************************************************)
(* BizniWebExporter.fetch_orders: the batches of the bulk fetch            *)
(***************************************************************************)
\* the number of elements of the sequence q that carry the order id i
Occurrences(q, i) == Cardinality({ k \in 1..Len(q) : q[k].id = i })

\* C18: fetch_orders returns each order at most once,
\* no order id occurs twice in the result, for any number of bulk batches,
\* any cursor the API returns at the end of a batch (a null cursor after the
\* last page included) and any mix of cached and fetched dates.
C18_NoOrderTwice ==
    pc = "done" => \A i \in PoolIds : Occurrences(result, i) <= 1


(***************************************************************************)
(* BizniWebExporter.fetch_all_orders_bulk: the max_orders limit            *)
(***************************************************************************)
\* C20: fetch_all_orders_bulk fetches at most max_orders orders: the list
\* it returns never has more than max_orders elements, for any page sizes
\* the API returns (up to the limit of 30 per page).
C20_AtMostMaxOrders ==
    (fn = "bulk" /\ pc = "returned") => Len(result) <= max_orders


(***************************************************************************)
(* BizniWebExporter.fetch_all_orders_bulk against an API whose answers are *)
(* not tied to the number of orders it holds: a successful answer carries  *)
(* any page of at most PageLimit orders and any hasNextPage.  The program  *)
(* is sequential, so it always takes its next step (weak fairness of the   *)
(* next-state relation); which answer a request gets is left open.         *)
(***************************************************************************)
\* client.execute returns n orders and the pageInfo the server chooses
BulkAnswer(n, hasNextPage, cursor_null) ==
    /\ n <= ApiRemaining(api_ids, cursor)
    /\ cursor_null => ~hasNextPage
    /\ TryAnswer(ApiPage(api_ids, sort_order, cursor, n), hasNextPage,
                 IF cursor_null THEN NoCursor ELSE ApiStart(cursor) + n)
    /\ UNCHANGED logVars

BulkFails == TryFails /\ UNCHANGED logVars

InitBulk == InitPaging /\ fn = "bulk"

NextBulk ==
    \/ PageLoop
    \/ \E n \in 0..PageLimit, hasNextPage \in BOOLEAN, cursor_null \in BOOLEAN :
           BulkAnswer(n, hasNextPage, cursor_null)
    \/ BulkFails
    \/ PagingReturn

SpecBulk == InitBulk /\ [][NextBulk]_vars /\ WF_vars(NextBulk)

\* C21: fetch_all_orders_bulk eventually returns for every behaviour of the
\* API in which each request either fails or succeeds; in particular it
\* terminates when the API keeps answering with empty pages and
\* hasNextPage = true.
C21_EventuallyReturns == <>(pc = "returned")


(***************************************************************************)
(* BizniWebExporter.fetch_orders with a failing cache: cache files that    *)
(* cannot be read or parsed, and writes of cache files that fail           *)
(***************************************************************************)
\* how open(cache_file, 'w') and json.dump of save_to_cache_simple end:
\* open raises and the file is untouched, or json.dump raises after open
\* has truncated the file
SaveOutcomes == {"ok", "open_fails", "dump_fails"}

\* BizniWebExporter.save_to_cache_simple with the outcome io of its write;
\* the except clause swallows the exception
save_to_cache_simple_io(fs, ds, stamp, date, orders, io) ==
    CASE io = "ok" -> save_to_cache_simple(fs, ds, stamp, date, orders)
      [] io = "open_fails" -> fs
      [] io = "dump_fails" -> WriteFile(fs, ds, get_cache_filename(date), CorruptFile)

RECURSIVE StoreFilesIO(_, _, _, _, _, _, _, _)
\* fetch_orders, lines 714-716: the cache files after the loop, the write
\* for date d ending as io[d]
StoreFilesIO(fs, ds, stamp, now, t, obd, dtf, io) ==
    IF dtf = <<>> THEN fs
    ELSE LET d == Head(dtf)
             fs1 == IF GtThreshold(DaysAgo(now, d), t)
                    THEN save_to_cache_simple_io(fs, ds, stamp, d,
                                                 ValidatedOrders(obd, d), io[d])
                    ELSE fs
         IN  StoreFilesIO(fs1, ds, stamp, now, t, obd, Tail(dtf), io)

\* lines 688-716 with writes that may fail
StoreDatesIO(io) ==
    /\ pc = "store"
    /\ all_orders' = all_orders \o StoreOrders(orders_by_date, dates_to_fetch)
    /\ files' = StoreFilesIO(files, dirs, Now(runs, today), today, cache_days_threshold,
                             orders_by_date, dates_to_fetch, io)
    /\ pc' = "final"
    /\ UNCHANGED <<otherVars, dirs, result, runVars, dates_to_fetch, sort_order,
                   orders_by_date, batch_num, next_cursor, pageVars, logVars,
                   histVars>>

\* cache directories in which at most one file of the dates is damaged
DamagedCaches ==
    {EmptyDict} \cup { [ f \in {get_cache_filename(d)} |-> CorruptFile ] : d \in Dates }

\* the API holds orders with a pur_date that parses and a status that is kept
DatedApiChoices ==
    { S \in ApiChoices : \A i \in S : /\ ParsePurDate(OrderPool[i]) # ParseError
                                     /\ StatusName(OrderPool[i]) \notin ExcludedStatuses }

InitCacheErrors ==
    /\ files \in DamagedCaches
    /\ dirs = InitDirs({})
    /\ api_ids \in DatedApiChoices
    /\ today = Today
    /\ runs = 0
    /\ pc = "idle"
    /\ fn = "bulk"
    /\ date_from = 1
    /\ date_to = 1
    /\ cache_days_threshold = Finite(DefaultCacheDaysThreshold)
    /\ all_orders = <<>>
    /\ dates_to_fetch = <<>>
    /\ sort_order = "DESC"
    /\ orders_by_date = EmptyDict
    /\ batch_num = 1
    /\ next_cursor = NoCursor
    /\ result = <<>>
    /\ bulk_orders = <<>>
    /\ has_next_page = TRUE
    /\ cursor = NoCursor
    /\ retry_count = 0
    /\ success = FALSE
    /\ consecutive_errors = 0
    /\ max_orders = BulkMaxOrders
    /\ requests = <<>>
    /\ slept = <<>>
    /\ cache_read = {}
    /\ files_before = EmptyDict
    /\ request_failed = FALSE
    /\ file_reads = {}
    /\ InitOther

NextCacheErrors ==
    \/ \E from \in Dates, to \in Dates :
           from <= to /\ pc = "idle" /\ StartRun(from, to, FALSE, FALSE)
    \/ ScanCache
    \/ BeginBatch
    \/ PageLoop
    \/ FetchTry
    \/ EndBatch
    \/ \E io \in [{ d \in SeqToSet(dates_to_fetch) : Older(d) } -> SaveOutcomes] :
           StoreDatesIO(io)
    \/ FinalValidate

SpecCacheErrors == InitCacheErrors /\ [][NextCacheErrors]_vars


\* the write of the cache file of a fetched date failed: the date is older
\* than the threshold, the directory exists, and no valid file is left
SaveFailed(d) ==
    /\ pc \in {"final", "done"}
    /\ d \in SeqToSet(dates_to_fetch)
    /\ Older(d)
    /\ ~ReadableFile(files, d)

\* C22: a cache failure never aborts fetch_orders: load_from_cache returns
\* None (no exception) when the file is missing, unreadable or not valid
\* JSON, and fetch_orders then refetches that date from the API; an error
\* while writing a cache file in save_to_cache_simple is swallowed and the
\* orders of that date are still returned.
C22_CacheFailureNeverAborts ==
    /\ pc # "aborted"
    /\ \A d \in Dates :
          ~ReadableFile(files, d) =>
              /\ load_from_cache(files, d).none
              /\ ~load_from_cache(files, d).raised
    /\ AfterScan =>
          \A d \in Dates :
              (InRange(d) /\ ~ReadableFile(files_before, d))
              => d \in SeqToSet(dates_to_fetch)
    /\ (pc = "done" /\ ~request_failed) =>
          \A i \in api_ids :
              (InRange(OrderPool[i].pur_date.day)
               /\ ~ReadableFile(files_before, OrderPool[i].pur_date.day))
              => OrderPool[i] \in SeqToSet(result)
    /\ pc = "done" =>
          \A d \in Dates :
              SaveFailed(d) =>
                  SeqToSet(ValidatedOrders(orders_by_date, d)) \subseteq SeqToSet(result)

\* a run that met a damaged cache file of an older date, fetched the order
\* of that date from the API, failed to write the cache file and returned
\* the order
C22_Witness ==
    /\ pc = "done"
    /\ \E d \in Dates :
          /\ InRange(d) /\ Older(d)
          /\ get_cache_filename(d) \in DOMAIN files_before
          /\ ~files_before[get_cache_filename(d)].valid
          /\ SaveFailed(d)
          /\ ValidatedOrders(orders_by_date, d) # <<>>
          /\ \E k \in 1..Len(result) : result[k].pur_date.day = d


(***************************************************************************)
(* InvoiceGenerator.create_invoice: the order of its requests and its      *)
(* result, for every response of the web admin                             *)
(***************************************************************************)
\* the lists process_orders hands to the creation loop: orders the filter
\* selects, one with an id and one without
CreateInputs ==
    { q \in SeqsUpTo({InvOrderPool[1], InvOrderPool[3]}, 2) :
        /\ q # <<>>
        /\ \A k, l \in 1..Len(q) : q[k] = q[l] => k = l
        /\ filter_orders_for_invoice(q) = q }

InitCreateInvoice ==
    /\ files = EmptyDict
    /\ dirs = {}
    /\ orders_for_invoice \in CreateInputs
    /\ api_ids = { orders_for_invoice[k].id : k \in 1..Len(orders_for_invoice) }
    /\ today = Today
    /\ runs = 0
    /\ pc = "inv_create"
    /\ fn = "invoice"
    /\ date_from = 1
    /\ date_to = MaxDate
    /\ cache_days_threshold = Finite(DefaultCacheDaysThreshold)
    /\ all_orders = <<>>
    /\ dates_to_fetch = <<>>
    /\ sort_order = "ASC"
    /\ orders_by_date = EmptyDict
    /\ batch_num = 1
    /\ next_cursor = NoCursor
    /\ result = orders_for_invoice
    /\ bulk_orders = <<>>
    /\ has_next_page = TRUE
    /\ cursor = NoCursor
    /\ retry_count = 0
    /\ success = FALSE
    /\ consecutive_errors = 0
    /\ max_orders = BulkMaxOrders
    /\ requests = <<>>
    /\ slept = <<>>
    /\ cache_read = {}
    /\ files_before = EmptyDict
    /\ request_failed = FALSE
    /\ file_reads = {}
    /\ InitAds
    /\ InitCalc
    /\ web_session = TRUE
    /\ dry_run = FALSE
    /\ inv_requests = <<>>
    /\ web_requests = <<>>
    /\ create_results = <<>>

NextCreateInvoice ==
    \/ \E create_raises \in BOOLEAN, a1 \in FinalizeAttempts, a2 \in FinalizeAttempts,
          email_ok \in BOOLEAN :
          CreateInvoice(create_raises, a1, a2, email_ok)
    \/ ProcessOrdersEnd

SpecCreateInvoice == InitCreateInvoice /\ [][NextCreateInvoice]_vars

\* the requests of the call of create_invoice recorded as c
RequestsOfCall(c) == SubSeq(web_requests, c.first, c.last)

\* a finalize response that reports success: 200 with JSON success = true,
\* or 200 with a text that holds 'success' or 'invoice'
ReportsSuccess(r) ==
    /\ r.kind = "finalize"
    /\ r.status = 200
    /\ r.body \in {"json_success_id", "json_success", "html_marker"}

\* C23: create_invoice issues its requests in a fixed order: the create
\* request for the order precedes every finalize request; finalize is tried
\* with order_num first and with the order id only when the finalize by
\* order_num did not return HTTP 200; send_invoice_email is called only
\* after a finalize response with status 200 and success = true that carries
\* an invoice id; a failed email does not change the result, which is True
\* exactly when finalisation succeeded.
C23_RequestOrder ==
    \A n \in 1..Len(create_results) :
        LET c == create_results[n]
            q == RequestsOfCall(c)
        IN  /\ Len(q) >= 1
            /\ \A k \in 1..Len(q) :
                  /\ q[k].order = c.order
                  /\ (q[k].kind = "create") = (k = 1)
                  /\ (q[k].kind = "finalize" /\ q[k].by = "order_id") =>
                        /\ \E j \in 1..(k - 1) :
                               q[j].kind = "finalize" /\ q[j].by = "order_num"
                        /\ \A j \in 1..Len(q) :
                               (q[j].kind = "finalize" /\ q[j].by = "order_num")
                               => (j < k /\ q[j].status # 200)
                  /\ q[k].kind = "sendEmail" =>
                        /\ k = Len(q) /\ k > 1
                        /\ q[k - 1].kind = "finalize"
                        /\ q[k - 1].status = 200
                        /\ q[k - 1].body = "json_success_id"
            /\ c.returned = (\E k \in 1..Len(q) : ReportsSuccess(q[k]))

\* a call in which the finalize by order_num was refused, the finalize by
\* order id succeeded with an invoice id, the e-mail failed and the result
\* is True
C23_Witness ==
    \E n \in 1..Len(create_results) :
        LET c == create_results[n]
            q == RequestsOfCall(c)
        IN  /\ c.returned
            /\ \E k \in 1..Len(q) : q[k].kind = "finalize" /\ q[k].by = "order_id"
            /\ q[Len(q)].kind = "sendEmail" /\ ~q[Len(q)].ok


(***************************************************************************)
(* BizniWebExporter.analyze_returning_customers                            *)
(*                                                                         *)
(* A purchase time is a number of half days: time t lies on day t \div 2.  *)
(* Percentages are hundredths of a percent.                                *)
(***************************************************************************)
MaxRetRows == 3

\* purchase_datetime.dt.to_period('W') of a purchase time
week_of(t) == year_week(t \div 2)

RECURSIVE drop_duplicates(_)
\* drop_duplicates(subset=['order_num']): the first row of every order
drop_duplicates(rows) ==
    IF rows = <<>> THEN <<>>
    ELSE LET init == drop_duplicates(SubSeq(rows, 1, Len(rows) - 1))
             last == rows[Len(rows)]
         IN  IF \E k \in 1..Len(init) : init[k].order_num = last.order_num
             THEN init ELSE Append(init, last)

\* orders_df.groupby('customer_email')['purchase_datetime'].min().to_dict()
customer_first_purchase(orders_df) ==
    [ e \in { orders_df[k].customer_email : k \in 1..Len(orders_df) } |->
        CHOOSE t \in { orders_df[k].purchase_datetime : k \in 1..Len(orders_df) } :
            /\ \E k \in 1..Len(orders_df) :
                  orders_df[k].customer_email = e /\ orders_df[k].purchase_datetime = t
            /\ \A k \in 1..Len(orders_df) :
                  orders_df[k].customer_email = e => t <= orders_df[k].purchase_datetime ]

\* a comparison that also counts the first purchase itself
is_returning_or_first(row, first) ==
    row.purchase_datetime >= first[row.customer_email]

\* lines 1551-1553: the lambda of the is_returning column
is_returning(row, first) ==
    row.purchase_datetime > first[row.customer_email]

\* lines 1556-1569: the row of weekly_stats for a week
weekly_stats_row(orders_df, week) ==
    LET first == customer_first_purchase(orders_df)
        g == SelectSeq(orders_df, LAMBDA r : week_of(r.purchase_datetime) = week)
        total_orders == Len(g)
        returning_orders == Len(SelectSeq(g, LAMBDA r : is_returning(r, first)))
        new_orders == total_orders - returning_orders
    IN  [total_orders |-> total_orders,
         returning_orders |-> returning_orders,
         unique_customers |-> Cardinality({ g[k].customer_email : k \in 1..Len(g) }),
         new_orders |-> new_orders,
         returning_percentage |-> RoundDiv(returning_orders * 10000, total_orders),
         new_percentage |-> RoundDiv(new_orders * 10000, total_orders)]

\* analyze_returning_customers: the is_returning column of orders_df and
\* the frame weekly_stats
analyze_returning_customers(rows) ==
    LET orders_df == drop_duplicates(rows)
        first == customer_first_purchase(orders_df)
    IN  [is_returning |->
             [ o \in { orders_df[k].order_num : k \in 1..Len(orders_df) } |->
                 LET row == CHOOSE r \in SeqToSet(orders_df) : r.order_num = o
                 IN  is_returning(row, first) ],
         weekly_stats |->
             [ week \in { week_of(orders_df[k].purchase_datetime) :
                            k \in 1..Len(orders_df) } |->
                 weekly_stats_row(orders_df, week) ]]

\* the orders of the frame: customer 1 buys twice on day 1 at the same time,
\* once later on day 1 and once in the next week, customer 2 buys on day 2
\* and in the next week
RetOrderPool ==
    { [order_num |-> 1, customer_email |-> 1, purchase_datetime |-> 2],
      [order_num |-> 2, customer_email |-> 1, purchase_datetime |-> 2],
      [order_num |-> 3, customer_email |-> 1, purchase_datetime |-> 3],
      [order_num |-> 4, customer_email |-> 1, purchase_datetime |-> 16],
      [order_num |-> 5, customer_email |-> 2, purchase_datetime |-> 4],
      [order_num |-> 6, customer_email |-> 2, purchase_datetime |-> 17] }

\* the frames: an order has one row per item
RetInputs == SeqsUpTo(RetOrderPool, MaxRetRows) \ {<<>>}

InitReturning ==
    /\ InitExporterIdle
    /\ InitAds
    /\ InitInvIdle
    /\ pc = "call"
    /\ input \in RetInputs
    /\ output = NoValue

CallAnalyzeReturningCustomers ==
    /\ pc = "call"
    /\ output' = analyze_returning_customers(input)
    /\ pc' = "return"
    /\ UNCHANGED <<exporterVars, adVars, invVars, input>>

NextReturning == CallAnalyzeReturningCustomers

SpecReturning == InitReturning /\ [][NextReturning]_vars

\* the orders of the data set and those of a week
RetOrders == SeqToSet(input)
RetOrdersOfWeek(week) == { o \in RetOrders : week_of(o.purchase_datetime) = week }

\* the customer of o bought before o
BoughtBefore(o) ==
    \E r \in RetOrders :
        r.customer_email = o.customer_email /\ r.purchase_datetime < o.purchase_datetime

\* C24: in analyze_returning_customers an order counts as returning exactly
\* when its purchase time is strictly later than the earliest purchase time
\* of the same customer e-mail in the data set; for every week new_orders +
\* returning_orders = total_orders, every customer's earliest order is
\* counted as new, and returning_percentage + new_percentage = 100 up to
\* rounding.
C24_ReturningCustomers ==
    pc = "return" =>
        /\ DOMAIN output.is_returning = { o.order_num : o \in RetOrders }
        /\ \A o \in RetOrders : output.is_returning[o.order_num] = BoughtBefore(o)
        /\ DOMAIN output.weekly_stats = { week_of(o.purchase_datetime) : o \in RetOrders }
        /\ \A week \in DOMAIN output.weekly_stats :
              LET w == output.weekly_stats[week] IN
              /\ w.total_orders = Cardinality(RetOrdersOfWeek(week))
              /\ w.returning_orders =
                     Cardinality({ o \in RetOrdersOfWeek(week) : BoughtBefore(o) })
              /\ w.new_orders + w.returning_orders = w.total_orders
              /\ w.new_orders >=
                     Cardinality({ o \in RetOrdersOfWeek(week) :
                                     \A r \in RetOrders :
                                         r.customer_email = o.customer_email
                                         => o.purchase_datetime <= r.purchase_datetime })
              /\ w.returning_percentage + w.new_percentage \in 9999..10001

\* a week with a first order, a second order of the same customer later on
\* the same day and an order with two rows
C24_Witness ==
    /\ pc = "return"
    /\ Len(input) = 3
    /\ input[1] = input[2]
    /\ output.is_returning[input[3].order_num]
    /\ ~output.is_returning[input[1].order_num]
    /\ output.weekly_stats[0].total_orders = 2
    /\ output.weekly_stats[0].returning_percentage = 5000

====
